---- MODULE Spec2Model ----
(***************************************************************************)
(* Model of rust/src/api/dicom_rs_interface.rs: the directory scanner, the *)
(* hierarchy organizer and the spatial sorter.                             *)
(*                                                                         *)
(* Option<T> is a sequence of length 0 (None) or 1 (Some(x)).              *)
(* f64 values are integers plus the distinguished value NaN, for which     *)
(* partial_cmp returns no ordering.  Strings that the code compares are    *)
(* compared through StrRank, the byte-lexicographic rank of each string    *)
(* of the finite universe used here.                                       *)
(***************************************************************************)
EXTENDS Integers, Sequences, FiniteSets, TLC

VARIABLES
    \* directory scanner (load_dicom_directory, load_dicom_directory_recursive)
    mode,        \* "flat" | "recursive" | "none": which scanner was called
    rootState,   \* what the path given by the caller is on disk
    pc,          \* position of the running call
    depth,       \* recursion depth of process_directory_recursive
    listing,     \* history: every directory entry read_dir has yielded so far
    result,      \* the Vec `result` being filled by the scan
    ret,         \* value returned by the call (None until it returns)
    \* hierarchy organizer (organize_dicom_entries)
    entries,     \* the Vec<DicomDirectoryEntry> given to the organizer; the
                 \* local `entries` of the other functions that take a scan
    patients,    \* Result returned by organize_dicom_entries (None before)
    disk,        \* the files as a later open_file finds them, by path
    \* spatial sorter (sort_instances_by_position)
    instances,   \* the Vec<DicomInstance> sorted in place
    before,      \* history: `instances` as it was before the last call
    calls,       \* number of calls of sort_instances_by_position so far
    \* catalog loader (load_dicom_directory_unified)
    unified,     \* Some(recursive) in a call of load_dicom_directory_unified
    dicomdir,    \* the parsed catalog (None before parse_dicomdir_file)
    \* single-file operations (is_dicom_file, load_dicom_file,
    \* extract_metadata_elements)
    valid,       \* Some(b): is_dicom_file has returned b (None before)
    elements,    \* Result returned by extract_metadata_elements (None before)
    \* data-parallel fan-out over the files of a listing
    slots,       \* the pre-sized results array, one Option per position
    counter,     \* the shared progress counter
    workers      \* per worker: its position and the file it holds

vars == <<mode, rootState, pc, depth, listing, result, ret,
          entries, patients, disk, instances, before, calls,
          unified, dicomdir, valid, elements, slots, counter, workers>>

scanVars == <<mode, rootState, pc, depth, listing, result, ret>>
orgVars  == <<entries, patients, disk>>
sortVars == <<instances, before, calls>>
catVars  == <<unified, dicomdir>>
fileVars == <<valid, elements>>
parVars  == <<slots, counter, workers>>

----------------------------------------------------------------------------
(* Bounds *)

MaxDirEntries == 3     \* directory entries yielded by read_dir in one call
MaxDepth      == 2     \* nesting of subdirectories below the scanned one
MaxEntries    == 3     \* length of the list given to the organizer
MaxInstances  == 3     \* instances of the series given to the sorter
MaxCalls      == 2     \* successive calls of the sorter on the same Vec
MaxSlices     == 3     \* entries of a scan given to the projection sort
MaxSpacedSlices == 2   \* entries of a scan given to the spacing computation
MaxRecords    == 3     \* directory records of a catalog, nested ones counted
MaxElements   == 3     \* elements of the object of a file
MaxFiles      == 3     \* files of the listing given to the fan-out
MaxWorkers    == 2     \* workers of the pool

----------------------------------------------------------------------------
(* Option, Ordering, f64, strings *)

None == <<>>
Some(x) == <<x>>
is_some(o) == Len(o) = 1
unwrap_or(o, d) == IF Len(o) = 0 THEN d ELSE o[1]

\* i32::cmp
cmp(a, b) == IF a < b THEN "Less" ELSE IF a > b THEN "Greater" ELSE "Equal"

\* f64: NaN is the one value partial_cmp cannot order
NaN == 0 - 1

\* f64::partial_cmp(..).unwrap_or(Ordering::Equal)
partial_cmp_or_equal(a, b) ==
    IF a = NaN \/ b = NaN THEN "Equal" ELSE cmp(a, b)

\* str::cmp on the strings of this model: rank in byte-lexicographic order
StrRank ==
    [s \in {"", "20200101", "20210101", "Alice", "Unknown", "Zed"} |->
        CASE s = ""         -> 0
          [] s = "20200101" -> 1
          [] s = "20210101" -> 2
          [] s = "Alice"    -> 3
          [] s = "Unknown"  -> 4
          [] s = "Zed"      -> 5]

str_cmp(a, b) == cmp(StrRank[a], StrRank[b])

\* match (a, b) { (Some, Some) => a.cmp(b), (Some, None) => Less,
\*                (None, Some) => Greater, (None, None) => Equal }
cmp_option_i32(a, b) ==
    IF is_some(a) /\ is_some(b) THEN cmp(a[1], b[1])
    ELSE IF is_some(a) THEN "Less"
    ELSE IF is_some(b) THEN "Greater"
    ELSE "Equal"

----------------------------------------------------------------------------
(* slice::sort_by on a slice of at most 20 elements: insertion sort.  The  *)
(* closure is given as the table c[i][j] of its results on the elements    *)
(* v[i], v[j].  Each element is moved left past the maximal run of         *)
(* elements of the sorted prefix it compares Less than.                    *)

\* `prefix`: the indices already placed, in order; x: the index to insert
insert_tail(prefix, x, c) ==
    LET n     == Len(prefix)
        stops == {k \in 1..n : c[x][prefix[k]] # "Less"}
        j     == IF stops = {} THEN 0
                 ELSE CHOOSE k \in stops : \A m \in stops : m <= k
    IN  SubSeq(prefix, 1, j) \o <<x>> \o SubSeq(prefix, j + 1, n)

sort_by(v, c) ==
    LET f[i \in 0..Len(v)] ==
            IF i = 0 THEN <<>> ELSE insert_tail(f[i - 1], i, c)
    IN  [k \in 1..Len(v) |-> v[f[Len(v)][k]]]

----------------------------------------------------------------------------
(* Data model *)

\* DicomMetadata with every field None
EmptyMetadata ==
    [patient_name |-> None, patient_id |-> None, study_date |-> None,
     accession_number |-> None, modality |-> None,
     study_description |-> None, series_description |-> None,
     instance_number |-> None, series_number |-> None,
     study_instance_uid |-> None, series_instance_uid |-> None,
     sop_instance_uid |-> None, image_position |-> None,
     image_orientation |-> None, slice_location |-> None,
     slice_thickness |-> None, spacing_between_slices |-> None,
     pixel_spacing |-> None]

DicomDirectoryEntry(path, metadata, is_valid) ==
    [path |-> path, metadata |-> metadata, is_valid |-> is_valid]

----------------------------------------------------------------------------
(* Directory scanner *)

OptNumbers == {None, Some(1), Some(2)}

\* The parts of a parsed file (FileDicomObject) the scanner's sort reads:
\* the values element_to_int yields for SeriesNumber and InstanceNumber.
DicomObjects == [series_number : OptNumbers, instance_number : OptNumbers]

NoObject == [series_number |-> None, instance_number |-> None]

\* What read_dir can yield.  kind "error": the iterator item is Err.
\* kind "dir": file_path.is_dir(); listable: fs::read_dir on it succeeds.
\* kind "file": to_str: the path is valid UTF-8; opens: open_file succeeds
\* when is_dicom_file calls it; reopens: open_file succeeds again when the
\* scanner opens the file itself; obj: the parsed object.
DirEntries ==
    {[kind |-> "error", listable |-> FALSE, to_str |-> FALSE,
      opens |-> FALSE, reopens |-> FALSE, obj |-> NoObject]}
    \cup
    {[kind |-> "dir", listable |-> l, to_str |-> TRUE,
      opens |-> FALSE, reopens |-> FALSE, obj |-> NoObject] : l \in BOOLEAN}
    \cup
    {[kind |-> "file", listable |-> FALSE, to_str |-> FALSE,
      opens |-> FALSE, reopens |-> FALSE, obj |-> NoObject]}
    \cup
    {[kind |-> "file", listable |-> FALSE, to_str |-> TRUE,
      opens |-> o, reopens |-> FALSE, obj |-> NoObject] : o \in BOOLEAN}
    \cup
    {[kind |-> "file", listable |-> FALSE, to_str |-> TRUE,
      opens |-> TRUE, reopens |-> TRUE, obj |-> ob] : ob \in DicomObjects}

RootStates == {"missing", "not_a_directory", "unlistable", "listable"}

\* is_dicom_file(path): open_file(path).is_ok().  A path is the position of
\* the entry in the listing; `e` is the file found there.
is_dicom_file(e) == e.opens

\* extract_metadata: every field is read with .ok().and_then(..), so the
\* function returns Ok on every object.
extract_metadata(obj) ==
    [is_ok |-> TRUE,
     value |-> [EmptyMetadata EXCEPT !.series_number = obj.series_number,
                                     !.instance_number = obj.instance_number]]

\* compare_dicom_entries without its `if series_cmp == Equal` branch
compare_dicom_entries_series_only(a, b) ==
    cmp_option_i32(a.metadata.series_number, b.metadata.series_number)

\* The comparator of sort_dicom_entries
compare_dicom_entries(a, b) ==
    LET series_cmp == cmp_option_i32(a.metadata.series_number,
                                     b.metadata.series_number)
    IN  IF series_cmp = "Equal"
        THEN cmp_option_i32(a.metadata.instance_number,
                            b.metadata.instance_number)
        ELSE series_cmp

sort_dicom_entries(es) ==
    sort_by(es, [i \in 1..Len(es) |-> [j \in 1..Len(es) |->
                    compare_dicom_entries(es[i], es[j])]])

\* scanned_entry whose open-failure arm sets is_valid: true, as the
\* metadata-failure arm does
scanned_entry_always_valid(path, e) ==
    IF e.reopens
    THEN DicomDirectoryEntry(path, extract_metadata(e.obj).value, TRUE)
    ELSE DicomDirectoryEntry(path, EmptyMetadata, TRUE)

\* The body of `if is_valid { match open_file(..) { .. } }`: the entry
\* pushed for a file that passed is_dicom_file.
scanned_entry(path, e) ==
    IF e.reopens
    THEN LET m == extract_metadata(e.obj)
         IN  IF m.is_ok
             THEN DicomDirectoryEntry(path, m.value, TRUE)
             ELSE DicomDirectoryEntry(path, EmptyMetadata, TRUE)
    ELSE DicomDirectoryEntry(path, EmptyMetadata, FALSE)

\* push_file without the `if is_valid` test
push_file_unfiltered(res, path, e) ==
    IF ~e.to_str THEN res
    ELSE Append(res, DicomDirectoryEntry(path, EmptyMetadata, e.opens))

\* One iteration of `for entry in dir_entries` for a non-directory entry:
\* the new value of `result`.
push_file(res, path, e) ==
    IF ~e.to_str THEN res
    ELSE IF is_dicom_file(e) THEN Append(res, scanned_entry(path, e))
    ELSE res

Ok(v)  == [is_ok |-> TRUE, value |-> v]
Err(m) == [is_ok |-> FALSE, value |-> m]

Seen(e, d) == [entry |-> e, depth |-> d]

\* load_dicom_directory: path checks and fs::read_dir
load_dicom_directory_open ==
    /\ pc = "start" /\ mode = "flat"
    /\ IF rootState \in {"missing", "not_a_directory"}
       THEN pc' = "done" /\ ret' = Some(Err("Invalid directory path"))
       ELSE IF rootState = "unlistable"
       THEN pc' = "done" /\ ret' = Some(Err("Failed to read directory"))
       ELSE pc' = "scan" /\ ret' = ret
    /\ UNCHANGED <<mode, rootState, depth, listing, result>>
    /\ UNCHANGED orgVars /\ UNCHANGED sortVars /\ UNCHANGED catVars
    /\ UNCHANGED fileVars /\ UNCHANGED parVars

\* load_dicom_directory: one iteration of the loop over dir_entries
load_dicom_directory_entry ==
    /\ pc = "scan" /\ mode = "flat"
    /\ Len(listing) < MaxDirEntries
    /\ \E e \in DirEntries :
        /\ listing' = Append(listing, Seen(e, depth))
        /\ result' = IF e.kind = "file"
                     THEN push_file(result, Len(listing) + 1, e)
                     ELSE result
    /\ UNCHANGED <<mode, rootState, pc, depth, ret>>
    /\ UNCHANGED orgVars /\ UNCHANGED sortVars /\ UNCHANGED catVars
    /\ UNCHANGED fileVars /\ UNCHANGED parVars

\* load_dicom_directory: end of the listing, sort and return
load_dicom_directory_return ==
    /\ pc = "scan" /\ mode = "flat"
    /\ result' = sort_dicom_entries(result)
    /\ ret' = Some(Ok(result'))
    /\ pc' = "done"
    /\ UNCHANGED <<mode, rootState, depth, listing>>
    /\ UNCHANGED orgVars /\ UNCHANGED sortVars /\ UNCHANGED catVars
    /\ UNCHANGED fileVars /\ UNCHANGED parVars

\* load_dicom_directory_recursive: path checks, then the first call of
\* process_directory_recursive, whose read_dir error is propagated by `?`
load_dicom_directory_recursive_open ==
    /\ pc = "start" /\ mode = "recursive"
    /\ IF rootState \in {"missing", "not_a_directory"}
       THEN pc' = "done" /\ ret' = Some(Err("Invalid directory path"))
       ELSE IF rootState = "unlistable"
       THEN pc' = "done" /\ ret' = Some(Err("Failed to read directory"))
       ELSE pc' = "scan" /\ ret' = ret
    /\ UNCHANGED <<mode, rootState, depth, listing, result>>
    /\ UNCHANGED orgVars /\ UNCHANGED sortVars /\ UNCHANGED catVars
    /\ UNCHANGED fileVars /\ UNCHANGED parVars

\* process_directory_recursive: one iteration of the loop over dir_entries.
\* A subdirectory is entered by a recursive call; when its read_dir fails
\* the error is propagated by `?` through every enclosing call.
process_directory_recursive_entry ==
    /\ pc = "scan" /\ mode = "recursive"
    /\ Len(listing) < MaxDirEntries
    /\ \E e \in DirEntries :
        /\ e.kind = "dir" => depth < MaxDepth
        /\ listing' = Append(listing, Seen(e, depth))
        /\ IF e.kind = "dir"
           THEN IF e.listable
                THEN /\ depth' = depth + 1
                     /\ UNCHANGED <<pc, result, ret>>
                ELSE /\ pc' = "done"
                     /\ ret' = Some(Err("Failed to read directory"))
                     /\ UNCHANGED <<depth, result>>
           ELSE /\ result' = IF e.kind = "file"
                             THEN push_file(result, Len(listing) + 1, e)
                             ELSE result
                /\ UNCHANGED <<pc, depth, ret>>
    /\ UNCHANGED <<mode, rootState>>
    /\ UNCHANGED orgVars /\ UNCHANGED sortVars /\ UNCHANGED catVars
    /\ UNCHANGED fileVars /\ UNCHANGED parVars

\* process_directory_recursive: end of a subdirectory's listing, Ok(())
process_directory_recursive_return ==
    /\ pc = "scan" /\ mode = "recursive"
    /\ depth > 0
    /\ depth' = depth - 1
    /\ UNCHANGED <<mode, rootState, pc, listing, result, ret>>
    /\ UNCHANGED orgVars /\ UNCHANGED sortVars /\ UNCHANGED catVars
    /\ UNCHANGED fileVars /\ UNCHANGED parVars

\* load_dicom_directory_recursive: the walk returned Ok, sort and return
load_dicom_directory_recursive_return ==
    /\ pc = "scan" /\ mode = "recursive"
    /\ depth = 0
    /\ result' = sort_dicom_entries(result)
    /\ ret' = Some(Ok(result'))
    /\ pc' = "done"
    /\ UNCHANGED <<mode, rootState, depth, listing>>
    /\ UNCHANGED orgVars /\ UNCHANGED sortVars /\ UNCHANGED catVars
    /\ UNCHANGED fileVars /\ UNCHANGED parVars

OrgIdle  == entries = <<>> /\ patients = None /\ disk = <<>>
SortIdle == instances = <<>> /\ before = <<>> /\ calls = 0
CatIdle  == unified = None /\ dicomdir = None
FileIdle == valid = None /\ elements = None
ParIdle  == slots = <<>> /\ counter = 0 /\ workers = <<>>

InitScan ==
    /\ mode \in {"flat", "recursive"}
    /\ rootState \in RootStates
    /\ pc = "start"
    /\ depth = 0
    /\ listing = <<>>
    /\ result = <<>>
    /\ ret = None
    /\ OrgIdle /\ SortIdle /\ CatIdle /\ FileIdle /\ ParIdle

NextScan ==
    \/ load_dicom_directory_open
    \/ load_dicom_directory_entry
    \/ load_dicom_directory_return
    \/ load_dicom_directory_recursive_open
    \/ process_directory_recursive_entry
    \/ process_directory_recursive_return
    \/ load_dicom_directory_recursive_return

SpecScan == InitScan /\ [][NextScan]_vars

----------------------------------------------------------------------------
(* Claims about the directory scanner (checked under SpecScan) *)

Returned == pc = "done" /\ is_some(ret)
ReturnedOk == Returned /\ ret[1].is_ok
ReturnedErr == Returned /\ ~ret[1].is_ok
ReturnValue == IF ReturnedOk THEN ret[1].value ELSE <<>>

\* `a` may stand before `b` in a list ordered by series number, then
\* instance number, entries without a number last at each tier
MayPrecede(a, b) ==
    LET sa == a.metadata.series_number
        sb == b.metadata.series_number
        ia == a.metadata.instance_number
        ib == b.metadata.instance_number
    IN  \/ Len(sa) = 1 /\ Len(sb) = 1 /\ sa[1] < sb[1]
        \/ Len(sa) = 1 /\ Len(sb) = 0
        \/ /\ sa = sb
           /\ \/ Len(ib) = 0
              \/ Len(ia) = 1 /\ Len(ib) = 1 /\ ia[1] <= ib[1]

\* C1: the list returned by load_dicom_directory and by
\* load_dicom_directory_recursive is ordered by series number ascending,
\* then instance number ascending, entries without a number last at each
\* tier: every entry may precede every entry that comes after it.
C1_ScanResultSorted ==
    ReturnedOk =>
        \A i \in 1..Len(ReturnValue) : \A j \in 1..Len(ReturnValue) :
            i < j => MayPrecede(ReturnValue[i], ReturnValue[j])

\* A scan returned three entries which the sort had to reorder (paths are
\* listing positions), one without a series number and two of one series.
C1_Witness ==
    /\ ReturnedOk
    /\ Len(ReturnValue) = 3
    /\ ReturnValue[1].path > ReturnValue[2].path
    /\ ReturnValue[1].metadata.series_number =
           ReturnValue[2].metadata.series_number
    /\ ReturnValue[1].metadata.instance_number = Some(1)
    /\ ReturnValue[2].metadata.instance_number = Some(2)
    /\ ReturnValue[3].metadata.series_number = None

\* Number of entries of the list `es` whose path is `p`
CountPath(es, p) == Cardinality({i \in 1..Len(es) : es[i].path = p})

\* The k-th directory entry read is a file with a path string on which
\* open_file succeeds, i.e. is_dicom_file(path) is true
PassesIsDicomFile(k) ==
    /\ listing[k].entry.kind = "file"
    /\ listing[k].entry.to_str
    /\ listing[k].entry.opens

\* C2: load_dicom_directory on a listable directory always returns Ok,
\* with exactly one entry for each file of the directory for which
\* is_dicom_file is true and none for any other directory entry.
C2_FlatScanExactlyDicomFiles ==
    (Returned /\ mode = "flat" /\ rootState = "listable") =>
        /\ ret[1].is_ok
        /\ \A k \in 1..Len(listing) :
               CountPath(ReturnValue, k) = IF PassesIsDicomFile(k) THEN 1 ELSE 0
        /\ Len(ReturnValue) =
               Cardinality({k \in 1..Len(listing) : PassesIsDicomFile(k)})

\* A flat scan of a directory holding a non-DICOM file between two DICOM
\* files returned exactly the two DICOM files.
C2_Witness ==
    /\ ReturnedOk /\ mode = "flat"
    /\ Len(listing) = 3
    /\ PassesIsDicomFile(1)
    /\ listing[2].entry.kind = "file" /\ listing[2].entry.to_str
    /\ ~listing[2].entry.opens
    /\ PassesIsDicomFile(3)
    /\ Len(ReturnValue) = 2

\* The k-th directory entry passed is_dicom_file and then either could not
\* be opened again or its metadata could not be extracted
FailsAfterIsDicomFile(k) ==
    /\ PassesIsDicomFile(k)
    /\ \/ ~listing[k].entry.reopens
       \/ ~extract_metadata(listing[k].entry.obj).is_ok

\* The list `es` holds exactly one entry for path p, with every metadata
\* field absent and is_valid = false
HoldsInvalidEntry(es, p) ==
    /\ CountPath(es, p) = 1
    /\ \A i \in 1..Len(es) :
           es[i].path = p =>
               es[i].metadata = EmptyMetadata /\ es[i].is_valid = FALSE

C4_ErrorOnlyForGivenDirectory ==
    ReturnedErr => rootState # "listable"

----------------------------------------------------------------------------
(* Spatial sorter: sort_instances_by_position *)

DicomInstance(path, meta, is_valid) ==
    [path |-> path,
     sop_instance_uid |-> meta.sop_instance_uid,
     instance_number |-> meta.instance_number,
     image_position |-> meta.image_position,
     slice_location |-> meta.slice_location,
     is_valid |-> is_valid]

\* i.image_position.is_some() && i.image_position.unwrap().len() >= 3
has_position(i) ==
    is_some(i.image_position) /\ Len(i.image_position[1]) >= 3

\* closure of the first sort_by: by slice location, None last
compare_slice_location(a, b) ==
    IF is_some(a.slice_location) /\ is_some(b.slice_location)
    THEN partial_cmp_or_equal(a.slice_location[1], b.slice_location[1])
    ELSE IF is_some(a.slice_location) THEN "Less"
    ELSE IF is_some(b.slice_location) THEN "Greater"
    ELSE "Equal"

\* closure of the third sort_by: by instance number, None last
compare_instance_number(a, b) ==
    cmp_option_i32(a.instance_number, b.instance_number)

\* closure of the second sort_by: by pos[2] when both instances have a
\* position of at least 3 components, by instance number otherwise
compare_z_position(a, b) ==
    IF has_position(a) /\ has_position(b)
    THEN partial_cmp_or_equal(a.image_position[1][3], b.image_position[1][3])
    ELSE compare_instance_number(a, b)

\* The tier sort_instances_by_position applies to `is`: 1 slice location,
\* 2 z position, 3 instance number.  Tier 2 needs has_positions and the
\* FIRST instance to have a position of at least 3 components.
sort_tier(is) ==
    IF \E k \in 1..Len(is) : is_some(is[k].slice_location) THEN 1
    ELSE IF /\ \E k \in 1..Len(is) : has_position(is[k])
            /\ Len(is) > 0
            /\ has_position(is[1])
         THEN 2
    ELSE 3

sort_instances_by_position(is) ==
    LET n == Len(is)
    IN  CASE sort_tier(is) = 1 ->
                sort_by(is, [i \in 1..n |-> [j \in 1..n |->
                                compare_slice_location(is[i], is[j])]])
          [] sort_tier(is) = 2 ->
                sort_by(is, [i \in 1..n |-> [j \in 1..n |->
                                compare_z_position(is[i], is[j])]])
          [] OTHER ->
                sort_by(is, [i \in 1..n |-> [j \in 1..n |->
                                compare_instance_number(is[i], is[j])]])

----------------------------------------------------------------------------
(* Hierarchy organizer: organize_dicom_entries and sort_dicom_hierarchy *)

UNKNOWN == "UNKNOWN"

\* a new series that does not receive the instance it is created for
new_series_without_instance(series_uid, meta, instance) ==
    [series_instance_uid |-> Some(series_uid),
     series_number |-> meta.series_number,
     series_description |-> meta.series_description,
     modality |-> meta.modality,
     instances |-> <<>>]

new_series(series_uid, meta, instance) ==
    [series_instance_uid |-> Some(series_uid),
     series_number |-> meta.series_number,
     series_description |-> meta.series_description,
     modality |-> meta.modality,
     instances |-> <<instance>>]

new_study(study_uid, series_uid, meta, instance) ==
    [study_instance_uid |-> Some(study_uid),
     study_date |-> meta.study_date,
     study_description |-> meta.study_description,
     accession_number |-> meta.accession_number,
     series |-> <<new_series(series_uid, meta, instance)>>]

new_patient(patient_id, meta) ==
    [patient_id |-> Some(patient_id),
     patient_name |-> meta.patient_name,
     studies |-> <<>>]

\* the search that looks at the last element only
find_uid_last_only(uids, uid) ==
    IF Len(uids) > 0 /\ uids[Len(uids)] = Some(uid) THEN Len(uids) ELSE 0

\* index of the first element of `s` whose field value `uids[k]` is
\* Some(uid), 0 when there is none: the `for .. { if .. { break } }` search
find_uid(uids, uid) ==
    LET hits == {k \in 1..Len(uids) : uids[k] = Some(uid)}
    IN  IF hits = {} THEN 0
        ELSE CHOOSE k \in hits : \A m \in hits : k <= m

\* add_to_study without the search: a new series for every instance
add_to_study_always_new(study, series_uid, meta, instance) ==
    [study EXCEPT !.series = Append(@, new_series(series_uid, meta, instance))]

\* the inner loop over study.series and `if !found_series`
add_to_study(study, series_uid, meta, instance) ==
    LET ss == study.series
        k  == find_uid([i \in 1..Len(ss) |-> ss[i].series_instance_uid],
                       series_uid)
    IN  IF k > 0
        THEN [study EXCEPT !.series[k].instances = Append(@, instance)]
        ELSE [study EXCEPT
                 !.series = Append(@, new_series(series_uid, meta, instance))]

\* the loop over patient.studies and `if !found_study`
add_to_patient(patient, study_uid, series_uid, meta, instance) ==
    LET st == patient.studies
        k  == find_uid([i \in 1..Len(st) |-> st[i].study_instance_uid],
                       study_uid)
    IN  IF k > 0
        THEN [patient EXCEPT
                 !.studies[k] = add_to_study(@, series_uid, meta, instance)]
        ELSE [patient EXCEPT
                 !.studies = Append(@, new_study(study_uid, series_uid,
                                                 meta, instance))]

\* patients_map.entry(patient_id).or_insert_with(..)
or_insert(map, key, value) ==
    IF key \in DOMAIN map THEN map ELSE map @@ (key :> value)

\* organize_entry whose missing series UID falls back to a value of the
\* file itself (its path) instead of the shared sentinel
organize_entry_series_per_file(map, entry) ==
    IF ~entry.is_valid THEN map
    ELSE
      LET meta       == entry.metadata
          patient_id == unwrap_or(meta.patient_id, UNKNOWN)
          study_uid  == unwrap_or(meta.study_instance_uid, UNKNOWN)
          series_uid == unwrap_or(meta.series_instance_uid, ToString(entry.path))
          instance   == DicomInstance(entry.path, meta, entry.is_valid)
          map1       == or_insert(map, patient_id, new_patient(patient_id, meta))
      IN  [map1 EXCEPT ![patient_id] =
               add_to_patient(@, study_uid, series_uid, meta, instance)]

\* one iteration of `for entry in entries`
organize_entry(map, entry) ==
    IF ~entry.is_valid THEN map
    ELSE
      LET meta       == entry.metadata
          patient_id == unwrap_or(meta.patient_id, UNKNOWN)
          study_uid  == unwrap_or(meta.study_instance_uid, UNKNOWN)
          series_uid == unwrap_or(meta.series_instance_uid, UNKNOWN)
          instance   == DicomInstance(entry.path, meta, entry.is_valid)
          map1       == or_insert(map, patient_id, new_patient(patient_id, meta))
      IN  [map1 EXCEPT ![patient_id] =
               add_to_patient(@, study_uid, series_uid, meta, instance)]

\* patients_map after the loop over `es`
organize_map(es) ==
    LET f[i \in 0..Len(es)] ==
            IF i = 0 THEN <<>> ELSE organize_entry(f[i - 1], es[i])
    IN  f[Len(es)]

\* closures of sort_dicom_hierarchy
compare_patient_name(a, b) ==
    str_cmp(unwrap_or(a.patient_name, "Unknown"),
            unwrap_or(b.patient_name, "Unknown"))

\* compare_study_date without the reversal: date_a.cmp(date_b)
compare_study_date_ascending(a, b) ==
    str_cmp(unwrap_or(a.study_date, ""), unwrap_or(b.study_date, ""))

compare_study_date(a, b) ==
    str_cmp(unwrap_or(b.study_date, ""), unwrap_or(a.study_date, ""))

compare_series_number(a, b) ==
    cmp_option_i32(a.series_number, b.series_number)

sort_series(ss) ==
    LET sorted == sort_by(ss, [i \in 1..Len(ss) |-> [j \in 1..Len(ss) |->
                                 compare_series_number(ss[i], ss[j])]])
    IN  [k \in 1..Len(sorted) |->
            [sorted[k] EXCEPT !.instances = sort_instances_by_position(@)]]

sort_studies(st) ==
    LET sorted == sort_by(st, [i \in 1..Len(st) |-> [j \in 1..Len(st) |->
                                 compare_study_date(st[i], st[j])]])
    IN  [k \in 1..Len(sorted) |->
            [sorted[k] EXCEPT !.series = sort_series(@)]]

sort_dicom_hierarchy(ps) ==
    LET sorted == sort_by(ps, [i \in 1..Len(ps) |-> [j \in 1..Len(ps) |->
                                 compare_patient_name(ps[i], ps[j])]])
    IN  [k \in 1..Len(sorted) |->
            [sorted[k] EXCEPT !.studies = sort_studies(@)]]

\* The orders in which HashMap::into_values can yield the values of `map`
into_values(map) ==
    LET n == Cardinality(DOMAIN map)
    IN  {[k \in 1..n |-> map[o[k]]] :
            o \in {q \in [1..n -> DOMAIN map] :
                      \A a \in 1..n : \A b \in 1..n : q[a] = q[b] => a = b}}

\* The lists organize_dicom_entries can return for `es`
organize_dicom_entries(es) ==
    {sort_dicom_hierarchy(ps) : ps \in into_values(organize_map(es))}

----------------------------------------------------------------------------
(* Inputs and actions of the organizer *)

\* Lists of length at most n over the set S
SeqsUpTo(S, n) == UNION {[1..k -> S] : k \in 0..n}

\* Metadata that vary the grouping keys
KeyMetadata ==
    {[EmptyMetadata EXCEPT !.patient_id = p,
                           !.study_instance_uid = st,
                           !.series_instance_uid = se] :
        p \in {None, Some("P1")},
        st \in {None, Some("S1")},
        se \in {None, Some("A"), Some("B")}}

\* Metadata of one patient that vary the study and its date
DatedMetadata ==
    {[EmptyMetadata EXCEPT !.patient_id = Some("P1"),
                           !.study_instance_uid = st,
                           !.study_date = d] :
        st \in {None, Some("S1"), Some("S2")},
        d \in {None, Some("20200101"), Some("20210101")}}

\* An entry as the scanner builds it: valid with the file's metadata, or
\* invalid with every field absent
EntryKinds(M) ==
    {[metadata |-> m, is_valid |-> TRUE] : m \in M}
    \cup {[metadata |-> EmptyMetadata, is_valid |-> FALSE]}

\* The lists a scan can return over the metadata M: paths are distinct
\* (the position of the file), the order is the one sort_dicom_entries
\* leaves
ScanLists(M) ==
    {es \in {[k \in 1..Len(q) |->
                 DicomDirectoryEntry(k, q[k].metadata, q[k].is_valid)] :
                 q \in SeqsUpTo(EntryKinds(M), MaxEntries)} :
        sort_dicom_entries(es) = es}

\* load_dicom_directory_organized after the scan: organize_dicom_entries
organize ==
    /\ pc = "organize"
    /\ \E ps \in organize_dicom_entries(entries) :
           patients' = Some(Ok(ps))
    /\ pc' = "organized"
    /\ UNCHANGED <<mode, rootState, depth, listing, result, ret>>
    /\ UNCHANGED <<entries, disk>> /\ UNCHANGED sortVars /\ UNCHANGED catVars
    /\ UNCHANGED fileVars /\ UNCHANGED parVars

InitOrganize ==
    /\ mode = "none" /\ rootState = "listable" /\ pc = "organize"
    /\ depth = 0 /\ listing = <<>> /\ result = <<>> /\ ret = None
    /\ entries \in ScanLists(KeyMetadata) \cup ScanLists(DatedMetadata)
    /\ patients = None /\ disk = <<>>
    /\ SortIdle /\ CatIdle /\ FileIdle /\ ParIdle

NextOrganize == organize

SpecOrganize == InitOrganize /\ [][NextOrganize]_vars

----------------------------------------------------------------------------
(* Claims about the organizer (checked under SpecOrganize) *)

Organized == pc = "organized" /\ is_some(patients) /\ patients[1].is_ok
Hierarchy == IF Organized THEN patients[1].value ELSE <<>>

\* Positions of the studies and of the series of the hierarchy
StudyIds ==
    {x \in (1..MaxEntries) \X (1..MaxEntries) :
        x[1] <= Len(Hierarchy) /\ x[2] <= Len(Hierarchy[x[1]].studies)}

SeriesIds ==
    {x \in (1..MaxEntries) \X (1..MaxEntries) \X (1..MaxEntries) :
        /\ x[1] <= Len(Hierarchy)
        /\ x[2] <= Len(Hierarchy[x[1]].studies)
        /\ x[3] <= Len(Hierarchy[x[1]].studies[x[2]].series)}

StudyAt(x)  == Hierarchy[x[1]].studies[x[2]]
SeriesAt(x) == Hierarchy[x[1]].studies[x[2]].series[x[3]]

\* Sum of f over the finite set S
RECURSIVE SumOver(_, _)
SumOver(f, S) ==
    IF S = {} THEN 0
    ELSE LET x == CHOOSE y \in S : TRUE
         IN  f[x] + SumOver(f, S \ {x})

InstanceCount ==
    LET ids == SeriesIds
    IN  SumOver([x \in ids |-> Len(SeriesAt(x).instances)], ids)

\* Paths of the instances held by a series, a study, a patient
SeriesPaths(x) ==
    {SeriesAt(x).instances[k].path : k \in 1..Len(SeriesAt(x).instances)}
StudyPaths(x) ==
    UNION {SeriesPaths(y) : y \in {z \in SeriesIds : <<z[1], z[2]>> = x}}
PatientPaths(p) ==
    UNION {SeriesPaths(y) : y \in {z \in SeriesIds : z[1] = p}}

AllValid == \A k \in 1..Len(entries) : entries[k].is_valid

\* Every entry carries the same study instance UID
OneStudyUid ==
    /\ \A k \in 1..Len(entries) :
           Len(entries[k].metadata.study_instance_uid) = 1
    /\ \A k \in 1..Len(entries) : \A l \in 1..Len(entries) :
           entries[k].metadata.study_instance_uid =
               entries[l].metadata.study_instance_uid

\* Every entry carries a series instance UID
AllSeriesUids ==
    \A k \in 1..Len(entries) :
        Len(entries[k].metadata.series_instance_uid) = 1

DistinctSeriesUids ==
    {entries[k].metadata.series_instance_uid : k \in 1..Len(entries)}

\* Every entry has the same patient id, or none has one
OnePatientId ==
    \A k \in 1..Len(entries) : \A l \in 1..Len(entries) :
        entries[k].metadata.patient_id = entries[l].metadata.patient_id

\* One study in all, M series, N instances
OneStudyMSeriesNInstances ==
    /\ Cardinality(StudyIds) = 1
    /\ Cardinality(SeriesIds) = Cardinality(DistinctSeriesUids)
    /\ InstanceCount = Len(entries)

\* C5 as stated: N >= 1 valid entries with one study instance UID and M
\* distinct series instance UIDs give exactly 1 study over all returned
\* patients, with M series and N instances.
C5_OneStudyAsStated ==
    (Organized /\ Len(entries) >= 1 /\ AllValid /\ OneStudyUid
        /\ AllSeriesUids)
    => OneStudyMSeriesNInstances

\* C5 amended: N >= 1 valid entries with one patient id (or all without
\* one), one study instance UID and M distinct series instance UIDs give
\* exactly 1 patient with exactly 1 study, with M series and N instances.
C5_OneStudyPerPatient ==
    (Organized /\ Len(entries) >= 1 /\ AllValid /\ OneStudyUid
        /\ AllSeriesUids /\ OnePatientId)
    => (Len(Hierarchy) = 1 /\ OneStudyMSeriesNInstances)

\* Three valid entries of one patient and one study with two distinct
\* series UIDs were organized into one study of two series.
C5_Witness ==
    /\ Organized /\ Len(entries) = 3 /\ AllValid
    /\ OneStudyUid /\ AllSeriesUids /\ OnePatientId
    /\ Cardinality(DistinctSeriesUids) = 2
    /\ Cardinality(SeriesIds) = 2
    /\ InstanceCount = 3

\* C6: a valid entry without a patient id is held by a patient with id
\* "UNKNOWN", one without a study UID by a study with UID "UNKNOWN", one
\* without a series UID by a series with UID "UNKNOWN"; there is at most
\* one such patient, at most one such study in a patient and at most one
\* such series in a study, so the key-less entries of a level collapse
\* into one group.
C6_MissingKeysCollapse ==
    Organized =>
      LET series  == SeriesIds
          studies == StudyIds
      IN
        /\ \A k \in 1..Len(entries) :
             entries[k].is_valid =>
               /\ \E x \in series : k \in SeriesPaths(x)
               /\ \A x \in series :
                    k \in SeriesPaths(x) =>
                      /\ entries[k].metadata.patient_id = <<>> =>
                           Hierarchy[x[1]].patient_id = <<"UNKNOWN">>
                      /\ entries[k].metadata.study_instance_uid = <<>> =>
                           StudyAt(x).study_instance_uid = <<"UNKNOWN">>
                      /\ entries[k].metadata.series_instance_uid = <<>> =>
                           SeriesAt(x).series_instance_uid = <<"UNKNOWN">>
        /\ Cardinality({p \in 1..Len(Hierarchy) :
               Hierarchy[p].patient_id = <<"UNKNOWN">>}) <= 1
        /\ \A p \in 1..Len(Hierarchy) :
               Cardinality({x \in studies : x[1] = p /\
                   StudyAt(x).study_instance_uid = <<"UNKNOWN">>}) <= 1
        /\ \A y \in studies :
               Cardinality({x \in series : <<x[1], x[2]>> = y /\
                   SeriesAt(x).series_instance_uid = <<"UNKNOWN">>}) <= 1

\* Three valid entries without any key were organized into one patient,
\* one study and one series, all "UNKNOWN", holding the three instances.
C6_Witness ==
    /\ Organized /\ Len(entries) = 3 /\ AllValid
    /\ \A k \in 1..3 :
           /\ entries[k].metadata.patient_id = <<>>
           /\ entries[k].metadata.study_instance_uid = <<>>
           /\ entries[k].metadata.series_instance_uid = <<>>
    /\ Len(Hierarchy) = 1
    /\ Hierarchy[1].patient_id = <<"UNKNOWN">>
    /\ Cardinality(SeriesIds) = 1
    /\ SeriesPaths(<<1, 1, 1>>) = {1, 2, 3}
    /\ SeriesAt(<<1, 1, 1>>).series_instance_uid = <<"UNKNOWN">>

\* C7: in every patient the studies are ordered by study date descending
\* (as strings) and every study without a date comes after every study
\* that has one.
C7_StudiesNewestFirst ==
    Organized =>
      LET studies == StudyIds
      IN  \A x \in studies : \A y \in studies :
            (x[1] = y[1] /\ x[2] < y[2]) =>
                LET dx == StudyAt(x).study_date
                    dy == StudyAt(y).study_date
                IN  /\ ~(Len(dx) = 0 /\ Len(dy) = 1)
                    /\ (Len(dx) = 1 /\ Len(dy) = 1) =>
                           StrRank[dx[1]] >= StrRank[dy[1]]

\* A patient whose files came undated study first, then the older, then
\* the newer study, was returned newest study first, undated study last.
C7_Witness ==
    /\ Organized /\ Len(Hierarchy) = 1
    /\ Len(Hierarchy[1].studies) = 3
    /\ StudyAt(<<1, 1>>).study_date = <<"20210101">>
    /\ StudyAt(<<1, 2>>).study_date = <<"20200101">>
    /\ StudyAt(<<1, 3>>).study_date = <<>>
    /\ StudyPaths(<<1, 1>>) = {3}
    /\ StudyPaths(<<1, 2>>) = {2}
    /\ StudyPaths(<<1, 3>>) = {1}

\* the series that hold an instance with the path of entry k, one pair
\* per instance
HoldersOf(k) ==
    {y \in SeriesIds \X (1..MaxEntries) :
        /\ y[2] <= Len(SeriesAt(y[1]).instances)
        /\ SeriesAt(y[1]).instances[y[2]].path = entries[k].path}

ValidEntries == {k \in 1..Len(entries) : entries[k].is_valid}

\* C26: the path of every valid entry is held by exactly one instance of
\* exactly one series of the returned hierarchy, the path of no invalid
\* entry is held anywhere, and the hierarchy has as many instances as
\* there are valid entries.
C26_OrganizerConservesInstances ==
    Organized =>
        /\ \A k \in ValidEntries : Cardinality(HoldersOf(k)) = 1
        /\ \A k \in 1..Len(entries) \ ValidEntries : HoldersOf(k) = {}
        /\ InstanceCount = Cardinality(ValidEntries)

\* three entries, one of them invalid, two valid ones in the same series
C26_Witness ==
    /\ Organized /\ Len(entries) = 3
    /\ Cardinality(ValidEntries) = 2
    /\ \E x \in SeriesIds : Len(SeriesAt(x).instances) = 2

\* C28: organize_dicom_entries returns one list for one input: the patients
\* and their order are the same in every run, also when two patients with
\* different ids have equal names or no name.
C28_OrganizerDeterministic ==
    Organized =>
        \A ps \in organize_dicom_entries(entries) : ps = patients[1].value

----------------------------------------------------------------------------
(* Inputs and actions of the spatial sorter *)

\* f64 values of SliceLocation as element_to_float64 yields them: NaN is
\* among them (an FD value, or the text "NaN" parsed by str::parse::<f64>)
OptSliceLocations == {None, Some(NaN), Some(1), Some(2)}

\* ImagePositionPatient as element_to_float64_vector yields it: absent,
\* fewer than 3 components, or 3 components
OptPositions == {None, Some(<<0, 0>>), Some(<<0, 0, 1>>), Some(<<0, 0, 2>>)}

SpatialMetadata ==
    {[EmptyMetadata EXCEPT !.instance_number = n,
                           !.slice_location = l,
                           !.image_position = p] :
        n \in OptNumbers, l \in OptSliceLocations, p \in OptPositions}

\* The instances of one series in the order organize_dicom_entries pushes
\* them: the order of the scan result, which sort_dicom_entries has sorted
\* by series number, then instance number.  The files of one series
\* (one SeriesInstanceUID) need not have the same SeriesNumber.
SeriesInScanOrder(is) ==
    \E sn \in [1..Len(is) -> OptNumbers] :
        \A k \in 1..(Len(is) - 1) :
            compare_dicom_entries(
                [metadata |-> [series_number |-> sn[k],
                               instance_number |-> is[k].instance_number]],
                [metadata |-> [series_number |-> sn[k + 1],
                               instance_number |-> is[k + 1].instance_number]])
            # "Greater"

\* sort_dicom_hierarchy: sort_instances_by_position(&mut series.instances),
\* and the same call again on the Vec it has sorted
sort_instances ==
    /\ pc = "sort"
    /\ calls < MaxCalls
    /\ before' = instances
    /\ instances' = sort_instances_by_position(instances)
    /\ calls' = calls + 1
    /\ UNCHANGED scanVars /\ UNCHANGED orgVars /\ UNCHANGED catVars
    /\ UNCHANGED fileVars /\ UNCHANGED parVars

InitSort ==
    /\ mode = "none" /\ rootState = "listable" /\ pc = "sort"
    /\ depth = 0 /\ listing = <<>> /\ result = <<>> /\ ret = None
    /\ OrgIdle
    /\ instances \in
           {[k \in 1..Len(q) |-> DicomInstance(k, q[k], TRUE)] :
                q \in SeqsUpTo(SpatialMetadata, MaxInstances)}
    /\ SeriesInScanOrder(instances)
    /\ before = <<>>
    /\ calls = 0
    /\ CatIdle /\ FileIdle /\ ParIdle

NextSort == sort_instances

SpecSort == InitSort /\ [][NextSort]_vars

----------------------------------------------------------------------------
(* Claims about the spatial sorter (checked under SpecSort) *)

\* Some instance of the series `is` has a slice location
AnySliceLocation(is) ==
    \E k \in 1..Len(is) : Len(is[k].slice_location) = 1

\* Some instance of the series `is` has a position of 3 components
AnyPosition(is) ==
    \E k \in 1..Len(is) :
        Len(is[k].image_position) = 1 /\ Len(is[k].image_position[1]) >= 3

\* C8: tier 1.  When at least one instance of the series has a slice
\* location, the sorted series is in ascending order of slice location
\* (for every two instances whose slice locations are numbers, the earlier
\* one has the smaller or equal value) and every instance without a slice
\* location comes after every instance that has one.
C8_SliceLocationAscending ==
    (calls = 1 /\ AnySliceLocation(before)) =>
        \A i \in 1..Len(instances) : \A j \in 1..Len(instances) :
            i < j =>
                LET a == instances[i].slice_location
                    b == instances[j].slice_location
                IN  /\ ~(Len(a) = 0 /\ Len(b) = 1)
                    /\ (Len(a) = 1 /\ Len(b) = 1 /\ a[1] # NaN /\ b[1] # NaN)
                           => a[1] <= b[1]

\* C9: tier 2.  When no instance has a slice location and any instance,
\* not necessarily the first, has a position of at least 3 components, the
\* series is sorted with the comparator that orders a pair by the third
\* position component when both have one and by instance number otherwise.
C9_PositionSortWhenAnyHasPosition ==
    (calls = 1 /\ ~AnySliceLocation(before) /\ AnyPosition(before)) =>
        instances =
            sort_by(before,
                    [i \in 1..Len(before) |-> [j \in 1..Len(before) |->
                        compare_z_position(before[i], before[j])]])

\* C10: sort_instances_by_position applied to its own output leaves the
\* order of the instances unchanged.
C10_SortIdempotent ==
    calls >= 2 => instances = before

\* C29: the comparator of tier 2 is a consistent ordering of the instances
\* it is applied to: antisymmetric (a before b exactly when b after a) and
\* transitive (a before b and b before c give a before c), whatever mix of
\* present and absent positions and instance numbers they have.
C29_ZPositionComparatorConsistent ==
    (calls = 1 /\ sort_tier(before) = 2) =>
        \A a, b, c \in {before[k] : k \in 1..Len(before)} :
            /\ compare_z_position(a, b) = "Less"
                   <=> compare_z_position(b, a) = "Greater"
            /\ (compare_z_position(a, b) = "Less"
                    /\ compare_z_position(b, c) = "Less")
                   => compare_z_position(a, c) = "Less"

----------------------------------------------------------------------------
(* Volume assembler: sort_dicom_entries_by_position, compute_slice_spacing, *)
(* load_volume_from_directory                                               *)
(*                                                                          *)
(* f64 arithmetic: NaN is absorbing; the finite values of this model are    *)
(* chosen so that no finite result is the integer that stands for NaN.      *)

f64_mul(a, b) == IF a = NaN \/ b = NaN THEN NaN ELSE a * b
f64_add(a, b) == IF a = NaN \/ b = NaN THEN NaN ELSE a + b
f64_sub(a, b) == IF a = NaN \/ b = NaN THEN NaN ELSE a - b
f64_abs(a) == IF a = NaN THEN NaN ELSE IF a < 0 THEN 0 - a ELSE a
\* f64::sqrt on the perfect squares
f64_sqrt(a) == IF a = NaN THEN NaN ELSE CHOOSE r \in 0..a : r * r = a
\* a > b on f64: false when either side is NaN
f64_gt(a, b) == a # NaN /\ b # NaN /\ a > b

\* e.metadata.image_position.as_ref().map(|v| v.len() >= 3).unwrap_or(false)
entry_has_position(e) ==
    is_some(e.metadata.image_position)
        /\ Len(e.metadata.image_position[1]) >= 3

\* e.metadata.image_orientation.as_ref().map(|v| v.len() >= 6).unwrap_or(false)
entry_has_orientation(e) ==
    is_some(e.metadata.image_orientation)
        /\ Len(e.metadata.image_orientation[1]) >= 6

\* normal = row direction x column direction of `orient`
slice_normal(orient) ==
    <<f64_sub(f64_mul(orient[2], orient[6]), f64_mul(orient[3], orient[5])),
      f64_sub(f64_mul(orient[3], orient[4]), f64_mul(orient[1], orient[6])),
      f64_sub(f64_mul(orient[1], orient[5]), f64_mul(orient[2], orient[4]))>>

\* normal[0] * pos[0] + normal[1] * pos[1] + normal[2] * pos[2]
dot(normal, pos) ==
    f64_add(f64_add(f64_mul(normal[1], pos[1]), f64_mul(normal[2], pos[2])),
            f64_mul(normal[3], pos[3]))

\* proj_a / proj_b of the closure: 0.0 for an entry without a position of
\* at least 3 components
projection(normal, e) ==
    LET pos == unwrap_or(e.metadata.image_position, <<0, 0, 0>>)
    IN  IF Len(pos) >= 3 THEN dot(normal, pos) ELSE 0

\* closure of the projection sort
compare_projection(normal, reverse, a, b) ==
    IF reverse
    THEN partial_cmp_or_equal(projection(normal, b), projection(normal, a))
    ELSE partial_cmp_or_equal(projection(normal, a), projection(normal, b))

\* closure of the slice-location fallback
compare_entry_slice_location(a, b) ==
    compare_slice_location(a.metadata, b.metadata)

\* indices of the entries the first `find` and the proj_vals loop look at
oriented(es) ==
    {k \in 1..Len(es) : entry_has_orientation(es[k]) /\ entry_has_position(es[k])}

positioned(es) == {k \in 1..Len(es) : entry_has_position(es[k])}

first_of(S) == CHOOSE k \in S : \A m \in S : k <= m

\* orientation of first_with_orientation
first_normal(es) ==
    slice_normal(es[first_of(oriented(es))].metadata.image_orientation[1])

\* proj_vals[0] > proj_vals[1]
reverse_order(es) ==
    LET p1 == first_of(positioned(es))
        p2 == first_of(positioned(es) \ {p1})
    IN  f64_gt(projection(first_normal(es), es[p1]),
               projection(first_normal(es), es[p2]))

\* the branch sort_dicom_entries_by_position takes
uses_projection(es) ==
    oriented(es) # {} /\ Cardinality(positioned(es)) >= 2

sort_dicom_entries_by_position(es) ==
    LET n == Len(es)
    IN  IF uses_projection(es)
        THEN LET normal  == first_normal(es)
                 reverse == reverse_order(es)
             IN  sort_by(es, [i \in 1..n |-> [j \in 1..n |->
                        compare_projection(normal, reverse, es[i], es[j])]])
        ELSE IF \E k \in 1..n : is_some(es[k].metadata.slice_location)
        THEN sort_by(es, [i \in 1..n |-> [j \in 1..n |->
                        compare_entry_slice_location(es[i], es[j])]])
        ELSE sort_dicom_entries(es)

\* Euclidean distance of two positions
distance(pos1, pos2) ==
    LET dx == f64_sub(pos2[1], pos1[1])
        dy == f64_sub(pos2[2], pos1[2])
        dz == f64_sub(pos2[3], pos1[3])
    IN  f64_sqrt(f64_add(f64_add(f64_mul(dx, dx), f64_mul(dy, dy)),
                         f64_mul(dz, dz)))

\* i in 0..len-1 with positions of 3 components on entries[i], entries[i+1]
consecutive_positions(es) ==
    {i \in 1..(Len(es) - 1) :
        entry_has_position(es[i]) /\ entry_has_position(es[i + 1])}

\* i in 0..len-1 with slice locations on entries[i], entries[i+1]
consecutive_locations(es) ==
    {i \in 1..(Len(es) - 1) :
        /\ is_some(es[i].metadata.slice_location)
        /\ is_some(es[i + 1].metadata.slice_location)}

\* entries.iter().find_map(|e| e.metadata.slice_thickness)
first_slice_thickness(es) ==
    LET thick == {k \in 1..Len(es) : is_some(es[k].metadata.slice_thickness)}
    IN  IF thick = {} THEN None ELSE es[first_of(thick)].metadata.slice_thickness

compute_slice_spacing(es) ==
    IF Len(es) < 2 THEN None
    ELSE IF consecutive_positions(es) # {}
    THEN LET i == first_of(consecutive_positions(es))
         IN  Some(distance(es[i].metadata.image_position[1],
                           es[i + 1].metadata.image_position[1]))
    ELSE IF consecutive_locations(es) # {}
    THEN LET i == first_of(consecutive_locations(es))
         IN  Some(f64_abs(f64_sub(es[i + 1].metadata.slice_location[1],
                                  es[i].metadata.slice_location[1])))
    ELSE first_slice_thickness(es)

\* spacing_xy of load_volume_from_directory
spacing_xy(first_entry) ==
    LET ps == first_entry.metadata.pixel_spacing
    IN  IF is_some(ps) /\ Len(ps[1]) >= 2 THEN <<ps[1][1], ps[1][2]>>
        ELSE <<1, 1>>

\* a file as the pixel pipeline finds it: pixels: extract_pixel_data
\* returns Ok; png: get_encoded_image returns Ok
PixelFile(pixels, png) == [pixels |-> pixels, png |-> png]

extract_pixel_data(files, path) ==
    IF files[path].pixels THEN Ok(path)
    ELSE Err("Failed to decode pixel data")

\* get_encoded_image: the PNG bytes of a file are named by its path
get_encoded_image(files, path) ==
    IF files[path].png THEN Ok(<<"png", path>>)
    ELSE Err("Failed to encode image")

\* the loop over the entries that leaves out a slice it cannot encode
encode_slices_skipping(es, files) ==
    LET f[i \in 0..Len(es)] ==
            IF i = 0 THEN <<>>
            ELSE LET encoded == get_encoded_image(files, es[i].path)
                 IN  IF encoded.is_ok THEN Append(f[i - 1], encoded.value)
                     ELSE f[i - 1]
    IN  Ok(f[Len(es)])

\* `for entry in entries.iter()`: slice_images, or the first error (`?`)
encode_slices(es, files) ==
    LET f[i \in 0..Len(es)] ==
            IF i = 0 THEN Ok(<<>>)
            ELSE IF ~f[i - 1].is_ok THEN f[i - 1]
            ELSE LET encoded == get_encoded_image(files, es[i].path)
                 IN  IF encoded.is_ok
                     THEN Ok(Append(f[i - 1].value, encoded.value))
                     ELSE encoded
    IN  f[Len(es)]

\* the DicomVolume built from the sorted entries and the slice images:
\* depth, spacing and slices
DicomVolume(es, slice_images) ==
    [depth |-> Len(slice_images),
     spacing |-> spacing_xy(es[1]) \o <<unwrap_or(compute_slice_spacing(es), 1)>>,
     slices |-> slice_images]

(* Inputs and actions of the volume assembler *)

\* ImagePositionPatient values: absent, 2 components, 3 components, and a
\* NaN component (an FD value, or the text "NaN" parsed by parse::<f64>)
VolumePositions ==
    {None, Some(<<0, 0>>), Some(<<3, 0, 0>>), Some(<<0, 0, 4>>),
     Some(<<0, 0, NaN>>)}

\* ImageOrientationPatient values: absent, 5 components, axial (normal
\* (0,0,1)) and sagittal (normal (1,0,0))
VolumeOrientations ==
    {None, Some(<<1, 0, 0, 0, 1>>), Some(<<1, 0, 0, 0, 1, 0>>),
     Some(<<0, 1, 0, 0, 0, 1>>)}

\* Metadata that vary what the projection sort reads
ProjectionMetadata ==
    {[EmptyMetadata EXCEPT !.image_position = p,
                           !.image_orientation = o] :
        p \in VolumePositions, o \in VolumeOrientations}

\* Metadata that vary what the spacing computation reads
SpacingMetadata ==
    {[EmptyMetadata EXCEPT !.image_position = p,
                           !.slice_location = l,
                           !.slice_thickness = t,
                           !.pixel_spacing = s] :
        p \in {None, Some(<<3, 0, 0>>), Some(<<0, 0, 4>>)},
        l \in {None, Some(1), Some(3)},
        t \in {None, Some(2)},
        s \in {None, Some(<<2>>), Some(<<2, 3>>)}}

\* The lists load_dicom_directory can return to the volume assembler: at
\* most `slices` entries for the projection sort, at most `spaced` for the
\* spacing computation
VolumeScanLists(slices, spaced) ==
    {[k \in 1..Len(q) |-> DicomDirectoryEntry(k, q[k], TRUE)] :
        q \in SeqsUpTo(ProjectionMetadata, slices)
              \cup SeqsUpTo(SpacingMetadata, spaced)}

\* load_volume_from_directory: load_dicom_directory(dir_path)?, the
\* is_empty test and sort_dicom_entries_by_position(&mut entries)
load_volume_from_directory_scan ==
    /\ pc = "start" /\ mode = "volume"
    /\ IF rootState # "listable"
       THEN /\ ret' = Some(Err("Invalid directory path"))
            /\ pc' = "done"
            /\ UNCHANGED entries
       ELSE IF result = <<>>
       THEN /\ ret' = Some(Err("No valid DICOM files found in directory"))
            /\ pc' = "done"
            /\ UNCHANGED entries
       ELSE /\ entries' = sort_dicom_entries_by_position(result)
            /\ pc' = "pixels"
            /\ UNCHANGED ret
    /\ UNCHANGED <<mode, rootState, depth, listing, result>>
    /\ UNCHANGED <<patients, disk>> /\ UNCHANGED sortVars /\ UNCHANGED catVars
    /\ UNCHANGED fileVars /\ UNCHANGED parVars

\* load_volume_from_directory: extract_pixel_data(..)? and
\* get_encoded_image(..)? of every entry, then the spacing and Ok(volume)
load_volume_from_directory_return ==
    /\ pc = "pixels" /\ mode = "volume"
    /\ LET first_image  == extract_pixel_data(disk, entries[1].path)
           slice_images == encode_slices(entries, disk)
       IN  ret' = IF ~first_image.is_ok THEN Some(first_image)
                  ELSE IF ~slice_images.is_ok THEN Some(slice_images)
                  ELSE Some(Ok(DicomVolume(entries, slice_images.value)))
    /\ pc' = "done"
    /\ UNCHANGED <<mode, rootState, depth, listing, result>>
    /\ UNCHANGED orgVars /\ UNCHANGED sortVars /\ UNCHANGED catVars
    /\ UNCHANGED fileVars /\ UNCHANGED parVars

InitVolume ==
    /\ mode = "volume"
    /\ rootState \in RootStates
    /\ pc = "start"
    /\ depth = 0
    /\ listing = <<>>
    /\ result \in (IF rootState = "listable"
                   THEN VolumeScanLists(MaxSlices, MaxSpacedSlices)
                   ELSE {<<>>})
    /\ ret = None
    /\ entries = <<>> /\ patients = None
    /\ disk \in {[k \in 1..Len(result) |-> PixelFile(b, b)] : b \in BOOLEAN}
    /\ SortIdle /\ CatIdle /\ FileIdle /\ ParIdle

NextVolume ==
    \/ load_volume_from_directory_scan
    \/ load_volume_from_directory_return

SpecVolume == InitVolume /\ [][NextVolume]_vars

\* Metadata of the slices of one series
SliceMetadata ==
    {EmptyMetadata}
    \cup {[EmptyMetadata EXCEPT !.image_position = Some(<<0, 0, z>>),
                                !.image_orientation = Some(<<1, 0, 0, 0, 1, 0>>)] :
            z \in 1..3}

\* The lists of at most `slices` entries a scan returns over SliceMetadata,
\* an entry whose second open failed included
SliceScanLists(slices) ==
    {[k \in 1..Len(q) |-> DicomDirectoryEntry(k, q[k].metadata, q[k].is_valid)] :
        q \in SeqsUpTo(EntryKinds(SliceMetadata), slices)}

\* Every way the files of a scan of n entries can be for the pixel pipeline
PixelFiles(n) ==
    [1..n -> {PixelFile(TRUE, TRUE), PixelFile(TRUE, FALSE),
              PixelFile(FALSE, FALSE)}]

InitSlices ==
    /\ mode = "volume"
    /\ rootState = "listable"
    /\ pc = "start"
    /\ depth = 0
    /\ listing = <<>>
    /\ result \in SliceScanLists(MaxSlices)
    /\ ret = None
    /\ entries = <<>> /\ patients = None
    /\ disk \in PixelFiles(Len(result))
    /\ SortIdle /\ CatIdle /\ FileIdle /\ ParIdle

SpecSlices == InitSlices /\ [][NextVolume]_vars

(* Claims about the volume assembler *)

VolumeSorted == mode = "volume" /\ pc \in {"pixels", "done"} /\ entries # <<>>
VolumeReturned == mode = "volume" /\ Returned /\ entries # <<>>

\* C11: when some entry of the scan result has an orientation of at least
\* 6 values and a position of at least 3 values, and at least two entries
\* have a position of at least 3 values, the sorted entries are monotone in
\* the projection of their positions on the normal of the first such
\* entry: ascending when the first positioned entry of the input projects
\* no higher than the second, descending otherwise.  (Stated on the pairs
\* of entries whose projections are numbers.)
C11_ProjectionMonotone ==
    (VolumeSorted /\ oriented(result) # {}
                  /\ Cardinality(positioned(result)) >= 2) =>
        LET normal == first_normal(result)
            p1     == first_of(positioned(result))
            p2     == first_of(positioned(result) \ {p1})
            a1     == dot(normal, result[p1].metadata.image_position[1])
            a2     == dot(normal, result[p2].metadata.image_position[1])
            asc    == ~f64_gt(a1, a2)
            proj   == [k \in positioned(entries) |->
                          dot(normal, entries[k].metadata.image_position[1])]
        IN  \A i, j \in positioned(entries) :
                (i < j /\ proj[i] # NaN /\ proj[j] # NaN) =>
                    IF asc THEN proj[i] <= proj[j] ELSE proj[i] >= proj[j]

\* C15: a call that returns a volume although the first sorted entry has
\* no pixel spacing of 2 values does not exist: such a call returns Err.
C15_ErrorWithoutPixelSpacing ==
    (VolumeReturned /\
        ~(/\ is_some(entries[1].metadata.pixel_spacing)
          /\ Len(entries[1].metadata.pixel_spacing[1]) >= 2)) =>
        ReturnedErr

\* C16: compute_slice_spacing on the sorted entries: the distance of a pair
\* of positions of 3 components when such a pair exists, else the absolute
\* difference of a pair of slice locations when two entries have one, else
\* the slice thickness of an entry when one has it (a single entry
\* included).
C16_SliceSpacingFallback ==
    VolumeSorted =>
        LET n   == Len(entries)
            z   == compute_slice_spacing(entries)
            pos == positioned(entries)
            loc == {k \in 1..n : is_some(entries[k].metadata.slice_location)}
            thk == {k \in 1..n : is_some(entries[k].metadata.slice_thickness)}
        IN  IF Cardinality(pos) >= 2
            THEN \E i, j \in pos :
                    /\ i # j
                    /\ z = Some(distance(entries[i].metadata.image_position[1],
                                         entries[j].metadata.image_position[1]))
            ELSE IF Cardinality(loc) >= 2
            THEN \E i, j \in loc :
                    /\ i # j
                    /\ z = Some(f64_abs(f64_sub(
                                   entries[i].metadata.slice_location[1],
                                   entries[j].metadata.slice_location[1])))
            ELSE thk # {} =>
                    \E k \in thk : z = entries[k].metadata.slice_thickness

\* C17: a call for which compute_slice_spacing derives no spacing returns
\* Err.
C17_ErrorWithoutSliceSpacing ==
    (VolumeReturned /\ compute_slice_spacing(entries) = None) => ReturnedErr

\* C30: sort_dicom_entries_by_position loses nothing and is idempotent: the
\* sorted entries are a permutation of the scan result, and sorting them
\* again leaves their order unchanged
C30_PositionSortIdempotent ==
    VolumeSorted =>
        /\ Len(entries) = Len(result)
        /\ \A x \in {result[k] : k \in 1..Len(result)} :
               Cardinality({k \in 1..Len(result) : result[k] = x})
                   = Cardinality({k \in 1..Len(entries) : entries[k] = x})
        /\ sort_dicom_entries_by_position(entries) = entries

\* the entries whose pixel decode or encode fails
FailedSlices ==
    {k \in 1..Len(entries) : ~disk[entries[k].path].png}
    \cup {k \in {1} : ~disk[entries[k].path].pixels}

\* C25: a call that returns a volume has depth = number of slices = number
\* of entries of the scan, and slice i is the encoded image of the i-th
\* entry of sort_dicom_entries_by_position; when the decode or encode of
\* any entry fails, an invalid entry included, the call returns Err.
C25_VolumeAllOrNothing ==
    VolumeReturned =>
        /\ entries = sort_dicom_entries_by_position(result)
        /\ ReturnedOk <=> FailedSlices = {}
        /\ ReturnedOk =>
               /\ ret[1].value.depth = Len(ret[1].value.slices)
               /\ ret[1].value.depth = Len(result)
               /\ \A i \in 1..Len(entries) :
                      ret[1].value.slices[i] = <<"png", entries[i].path>>

\* a volume of three slices that the sort has put in another order than
\* the scan
C25_Witness ==
    /\ VolumeReturned /\ ReturnedOk
    /\ Len(entries) = 3
    /\ entries[2].path = 3 /\ entries[3].path = 2

----------------------------------------------------------------------------
(* Metadata propagator: load_complete_study, propagate_study_metadata,      *)
(* collect_common_study_metadata, collect_common_series_metadata            *)

\* A file as FileDicomObject::open_file finds it after the scan
DiskFile(opens, metadata) == [opens |-> opens, metadata |-> metadata]

\* open_file(&instance.path) and extract_metadata(&file_obj): Some(metadata)
\* when both return Ok
open_metadata(files, path) ==
    IF path \in DOMAIN files /\ files[path].opens
    THEN Some(files[path].metadata)
    ELSE None

\* `if x.is_none() { x = y }`
fill_if_none(x, y) == IF is_some(x) THEN x ELSE y

\* the instances of the study in the order of the two nested loops
study_instances(study) ==
    LET f[i \in 0..Len(study.series)] ==
            IF i = 0 THEN <<>> ELSE f[i - 1] \o study.series[i].instances
    IN  f[Len(study.series)]

\* loop of collect_common_study_metadata over the instances `is`: patient
\* name and id of the first files that have them, until both are found
collect_patient_fields(common, is, files) ==
    LET f[i \in 0..Len(is)] ==
            IF i = 0 THEN common
            ELSE LET c == f[i - 1]
                     m == open_metadata(files, is[i].path)
                 IN  IF (is_some(c.patient_name) /\ is_some(c.patient_id))
                         \/ ~is[i].is_valid \/ ~is_some(m)
                     THEN c
                     ELSE [c EXCEPT
                              !.patient_name = fill_if_none(@, m[1].patient_name),
                              !.patient_id = fill_if_none(@, m[1].patient_id)]
    IN  f[Len(is)]

collect_common_study_metadata(study, files) ==
    collect_patient_fields(
        [EmptyMetadata EXCEPT
            !.study_instance_uid = study.study_instance_uid,
            !.study_date = study.study_date,
            !.study_description = study.study_description,
            !.accession_number = study.accession_number],
        study_instances(study), files)

\* `break` condition of collect_common_series_metadata
series_fields_found(c) ==
    is_some(c.modality) /\ is_some(c.series_description)
        /\ is_some(c.series_number)

\* fields that one iteration of collect_common_series_metadata fills from
\* the metadata m of an opened file
fill_series_fields(c, m) ==
    [c EXCEPT
        !.modality = fill_if_none(@, m.modality),
        !.series_description = fill_if_none(@, m.series_description),
        !.series_instance_uid = fill_if_none(@, m.series_instance_uid),
        !.series_number = fill_if_none(@, m.series_number),
        !.slice_thickness = fill_if_none(@, m.slice_thickness),
        !.spacing_between_slices = fill_if_none(@, m.spacing_between_slices),
        !.pixel_spacing = fill_if_none(@, m.pixel_spacing)]

\* the loop stops (stopped) after the first opened file that leaves
\* modality, description and number all present
collect_common_series_metadata(series, files) ==
    LET is == series.instances
        f[i \in 0..Len(is)] ==
            IF i = 0
            THEN [common |->
                     [EmptyMetadata EXCEPT
                         !.series_instance_uid = series.series_instance_uid,
                         !.series_number = series.series_number,
                         !.series_description = series.series_description,
                         !.modality = series.modality],
                  stopped |-> FALSE]
            ELSE LET m == open_metadata(files, is[i].path)
                 IN  IF f[i - 1].stopped \/ ~is[i].is_valid \/ ~is_some(m)
                     THEN f[i - 1]
                     ELSE LET c == fill_series_fields(f[i - 1].common, m[1])
                          IN  [common |-> c,
                               stopped |-> series_fields_found(c)]
    IN  f[Len(is)].common

\* instance_metadata after the two groups of `if .. is_none()` of
\* propagate_study_metadata
fill_instance_metadata(m, common_metadata, series_metadata) ==
    [m EXCEPT
        !.patient_name = fill_if_none(@, common_metadata.patient_name),
        !.patient_id = fill_if_none(@, common_metadata.patient_id),
        !.study_date = fill_if_none(@, common_metadata.study_date),
        !.study_description = fill_if_none(@, common_metadata.study_description),
        !.accession_number = fill_if_none(@, common_metadata.accession_number),
        !.study_instance_uid =
            fill_if_none(@, common_metadata.study_instance_uid),
        !.series_description =
            fill_if_none(@, series_metadata.series_description),
        !.modality = fill_if_none(@, series_metadata.modality),
        !.series_number = fill_if_none(@, series_metadata.series_number),
        !.series_instance_uid =
            fill_if_none(@, series_metadata.series_instance_uid)]

\* propagate_instance that assigns the two fields without the is_none test
propagate_instance_overwriting(instance, common_metadata, series_metadata, files) ==
    LET m == open_metadata(files, instance.path)
    IN  IF ~instance.is_valid \/ ~is_some(m) THEN instance
        ELSE LET instance_metadata ==
                     fill_instance_metadata(m[1], common_metadata,
                                            series_metadata)
             IN  [instance EXCEPT
                     !.sop_instance_uid = instance_metadata.sop_instance_uid,
                     !.instance_number = instance_metadata.instance_number]

\* body of `for instance in &mut series.instances`
propagate_instance(instance, common_metadata, series_metadata, files) ==
    LET m == open_metadata(files, instance.path)
    IN  IF ~instance.is_valid \/ ~is_some(m) THEN instance
        ELSE LET instance_metadata ==
                     fill_instance_metadata(m[1], common_metadata,
                                            series_metadata)
             IN  [instance EXCEPT
                     !.sop_instance_uid =
                         fill_if_none(@, instance_metadata.sop_instance_uid),
                     !.instance_number =
                         fill_if_none(@, instance_metadata.instance_number)]

\* body of `for series in &mut propagated_study.series`: only the
\* instances are written, the fields of the series are not
propagate_series(series, common_metadata, files) ==
    LET series_metadata == collect_common_series_metadata(series, files)
    IN  [series EXCEPT
            !.instances =
                [k \in 1..Len(series.instances) |->
                    propagate_instance(series.instances[k], common_metadata,
                                       series_metadata, files)]]

propagate_study_metadata(study, files) ==
    LET common_metadata == collect_common_study_metadata(study, files)
    IN  [study EXCEPT
            !.series = [k \in 1..Len(study.series) |->
                           propagate_series(study.series[k], common_metadata,
                                            files)]]

\* load_complete_study taking the last study of the first patient
first_study_last(ps) == ps[1].studies[Len(ps[1].studies)]

\* patient = &patients[0]; study = patient.studies[0].clone()
first_study(ps) == ps[1].studies[1]

(* Inputs and actions of the metadata propagator *)

\* Metadata of the files of one study that vary what the propagator reads
PropagatedMetadata ==
    {[EmptyMetadata EXCEPT !.series_instance_uid = Some("A"),
                           !.modality = mo,
                           !.sop_instance_uid = u] :
        mo \in {None, Some("CT")}, u \in {None, Some("U1")}}
    \cup {[EmptyMetadata EXCEPT !.series_instance_uid = Some("B"),
                                !.modality = Some("CT")]}

\* The file as it is when the propagator opens it again: as the scan read
\* it, unreadable, or written again with other values
Reopened(e) ==
    IF e.is_valid
    THEN {DiskFile(TRUE, e.metadata),
          DiskFile(FALSE, EmptyMetadata),
          DiskFile(TRUE, [e.metadata EXCEPT !.modality = Some("MR"),
                                            !.sop_instance_uid = Some("U2")])}
    ELSE {DiskFile(FALSE, EmptyMetadata)}

\* The files that are as the scan read them
Unchanged(es) == [k \in 1..Len(es) |-> DiskFile(es[k].is_valid, es[k].metadata)]

\* Every way the files of the scan `es` can be when they are opened again
ReopenedFiles(es) ==
    LET f[i \in 0..Len(es)] ==
            IF i = 0 THEN {<<>>}
            ELSE {Append(p, d) : p \in f[i - 1], d \in Reopened(es[i])}
    IN  f[Len(es)]

\* load_complete_study: the scan (`?` on its error), the is_empty test,
\* organize_dicom_entries and the tests on patients and studies
load_complete_study_organize ==
    /\ pc = "start" /\ mode = "study"
    /\ IF rootState # "listable"
       THEN /\ ret' = Some(Err("Invalid directory path"))
            /\ pc' = "done"
            /\ UNCHANGED <<entries, patients>>
       ELSE IF result = <<>>
       THEN /\ ret' = Some(Err("No valid DICOM files found in directory"))
            /\ pc' = "done"
            /\ UNCHANGED <<entries, patients>>
       ELSE /\ entries' = result
            /\ \E ps \in organize_dicom_entries(result) :
                /\ patients' = Some(Ok(ps))
                /\ IF ps = <<>>
                   THEN /\ ret' = Some(Err("No valid patient information found in DICOM files"))
                        /\ pc' = "done"
                   ELSE IF ps[1].studies = <<>>
                   THEN /\ ret' = Some(Err("No valid studies found for patient"))
                        /\ pc' = "done"
                   ELSE /\ pc' = "propagate"
                        /\ UNCHANGED ret
    /\ UNCHANGED <<mode, rootState, depth, listing, result, disk>>
    /\ UNCHANGED sortVars /\ UNCHANGED catVars
    /\ UNCHANGED fileVars /\ UNCHANGED parVars

\* load_complete_study: propagate_study_metadata(study)? and Ok(..)
load_complete_study_return ==
    /\ pc = "propagate" /\ mode = "study"
    /\ ret' = Some(Ok(propagate_study_metadata(first_study(patients[1].value),
                                               disk)))
    /\ pc' = "done"
    /\ UNCHANGED <<mode, rootState, depth, listing, result>>
    /\ UNCHANGED orgVars /\ UNCHANGED sortVars /\ UNCHANGED catVars
    /\ UNCHANGED fileVars /\ UNCHANGED parVars

InitStudy ==
    /\ mode = "study"
    /\ rootState \in RootStates
    /\ pc = "start"
    /\ depth = 0
    /\ listing = <<>>
    /\ \/ /\ rootState = "listable"
          /\ result \in ScanLists(PropagatedMetadata)
          /\ disk \in ReopenedFiles(result)
       \/ /\ rootState = "listable"
          /\ result \in ScanLists(KeyMetadata)
          /\ disk = Unchanged(result)
       \/ /\ rootState # "listable"
          /\ result = <<>>
          /\ disk = <<>>
    /\ ret = None
    /\ entries = <<>> /\ patients = None
    /\ SortIdle /\ CatIdle /\ FileIdle /\ ParIdle

NextStudy ==
    \/ load_complete_study_organize
    \/ load_complete_study_return

SpecStudy == InitStudy /\ [][NextStudy]_vars

(* Claims about the metadata propagator *)

StudyReturned == mode = "study" /\ ReturnedOk
OrganizedStudy == patients[1].value[1].studies[1]
ReturnedStudy == ret[1].value

MetadataFields == DOMAIN EmptyMetadata

\* C12: every instance of the returned study keeps the sop_instance_uid and
\* the instance_number it had after organizing when these were present, and
\* the metadata read from its file keeps every field it had when the
\* propagator filled it; a field that changes was absent.
C12_PropagatorNeverOverwrites ==
    StudyReturned =>
        LET common == collect_common_study_metadata(OrganizedStudy, disk)
        IN  \A s \in 1..Len(OrganizedStudy.series) :
            LET before_s == OrganizedStudy.series[s]
                after_s  == ReturnedStudy.series[s]
                series_metadata == collect_common_series_metadata(before_s, disk)
            IN  /\ Len(after_s.instances) = Len(before_s.instances)
                /\ \A k \in 1..Len(before_s.instances) :
                    LET b == before_s.instances[k]
                        a == after_s.instances[k]
                        m == open_metadata(disk, b.path)
                    IN  /\ a.path = b.path
                        /\ is_some(b.sop_instance_uid) =>
                               a.sop_instance_uid = b.sop_instance_uid
                        /\ is_some(b.instance_number) =>
                               a.instance_number = b.instance_number
                        /\ is_some(m) =>
                               \A fld \in MetadataFields :
                                   is_some(m[1][fld]) =>
                                       fill_instance_metadata(m[1], common,
                                           series_metadata)[fld] = m[1][fld]

\* an instance whose sop_instance_uid was present, whose file now holds
\* another one, and an instance whose absent sop_instance_uid was filled
C12_Witness ==
    /\ StudyReturned
    /\ \E s \in 1..Len(OrganizedStudy.series) :
         \E k \in 1..Len(OrganizedStudy.series[s].instances) :
            LET b == OrganizedStudy.series[s].instances[k]
                m == open_metadata(disk, b.path)
            IN  /\ is_some(b.sop_instance_uid) /\ is_some(m)
                /\ m[1].sop_instance_uid # b.sop_instance_uid
                /\ is_some(m[1].sop_instance_uid)
    /\ \E s \in 1..Len(OrganizedStudy.series) :
         \E k \in 1..Len(OrganizedStudy.series[s].instances) :
            /\ ~is_some(OrganizedStudy.series[s].instances[k].sop_instance_uid)
            /\ is_some(ReturnedStudy.series[s].instances[k].sop_instance_uid)

\* C13: in the returned study, a series field (modality, description,
\* number, UID) that was absent after organizing and that
\* collect_common_series_metadata found in a file of the series has the
\* collected value.
C13_SeriesFieldsInherited ==
    StudyReturned =>
        \A s \in 1..Len(OrganizedStudy.series) :
            LET before_s == OrganizedStudy.series[s]
                after_s  == ReturnedStudy.series[s]
                collected == collect_common_series_metadata(before_s, disk)
            IN  \A fld \in {"modality", "series_description", "series_number",
                            "series_instance_uid"} :
                    (~is_some(before_s[fld]) /\ is_some(collected[fld])) =>
                        after_s[fld] = collected[fld]

\* paths of the instances of a study
PathsOfStudy(study) ==
    {study_instances(study)[k].path : k \in 1..Len(study_instances(study))}

\* C14: the call returns Err when the scan fails or yields no entries and
\* when organizing yields no patient; otherwise it returns Ok, and the
\* returned study is the first study of the first patient of the organized
\* hierarchy: its UID, its series and exactly its instances, none of any
\* other study or patient.
C14_FirstStudyOnly ==
    (mode = "study" /\ Returned) =>
        IF rootState # "listable" \/ result = <<>> THEN ReturnedErr
        ELSE IF patients[1].value = <<>> THEN ReturnedErr
        ELSE IF patients[1].value[1].studies = <<>> THEN ReturnedErr
        ELSE /\ ReturnedOk
             /\ ReturnedStudy = propagate_study_metadata(OrganizedStudy, disk)
             /\ ReturnedStudy.study_instance_uid =
                    OrganizedStudy.study_instance_uid
             /\ Len(ReturnedStudy.series) = Len(OrganizedStudy.series)
             /\ \A s \in 1..Len(OrganizedStudy.series) :
                    /\ ReturnedStudy.series[s].series_instance_uid =
                           OrganizedStudy.series[s].series_instance_uid
                    /\ [k \in 1..Len(ReturnedStudy.series[s].instances) |->
                           ReturnedStudy.series[s].instances[k].path]
                       = [k \in 1..Len(OrganizedStudy.series[s].instances) |->
                           OrganizedStudy.series[s].instances[k].path]
             /\ \A p \in 1..Len(patients[1].value) :
                    \A t \in 1..Len(patients[1].value[p].studies) :
                        (p # 1 \/ t # 1) =>
                            PathsOfStudy(patients[1].value[p].studies[t])
                                \cap PathsOfStudy(ReturnedStudy) = {}

\* a hierarchy of several studies from which one study is returned
C14_Witness ==
    /\ mode = "study" /\ ReturnedOk
    /\ \/ Len(patients[1].value) >= 2
       \/ Len(patients[1].value[1].studies) >= 2
    /\ PathsOfStudy(ReturnedStudy) # {}

\* no two elements of the sequence `s` are equal
Distinct(s) == \A a, b \in 1..Len(s) : s[a] = s[b] => a = b

\* C27: a hierarchy returned by organize_dicom_entries has no patient
\* without a study, no study without a series and no series without an
\* instance; patient ids are distinct, study UIDs are distinct within a
\* patient and series UIDs within a study; load_complete_study therefore
\* never returns "No valid studies found for patient".
C27_NoEmptyContainersNoDuplicateKeys ==
    /\ (is_some(patients) /\ patients[1].is_ok) =>
           LET ps == patients[1].value
           IN  /\ Distinct([p \in 1..Len(ps) |-> ps[p].patient_id])
               /\ \A p \in 1..Len(ps) :
                      LET st == ps[p].studies
                      IN  /\ st # <<>>
                          /\ Distinct([s \in 1..Len(st) |->
                                          st[s].study_instance_uid])
                          /\ \A s \in 1..Len(st) :
                                 LET se == st[s].series
                                 IN  /\ se # <<>>
                                     /\ Distinct([x \in 1..Len(se) |->
                                            se[x].series_instance_uid])
                                     /\ \A x \in 1..Len(se) :
                                            se[x].instances # <<>>
    /\ ret # Some(Err("No valid studies found for patient"))

\* three files organized for load_complete_study: a patient with two
\* studies, one of which holds a series of two instances
C27_Witness ==
    /\ mode = "study" /\ is_some(patients) /\ Len(result) = 3
    /\ \E p \in 1..Len(patients[1].value) :
           /\ Len(patients[1].value[p].studies) = 2
           /\ \E s \in 1..2 :
                  Len(patients[1].value[p].studies[s].series[1].instances) = 2

----------------------------------------------------------------------------
(* Catalog (DICOMDIR): is_dicomdir_file, parse_dicomdir_file,               *)
(* parse_dicomdir_records, load_dicom_directory_unified, load_from_dicomdir,*)
(* process_dicomdir_entries, create_metadata_from_dicomdir_entry            *)
(*                                                                          *)
(* A path or a file id is the sequence of its characters.                   *)

MAIN_SEPARATOR == "/"
BACKSLASH == "\\"

\* str::split('\\'): the components between the delimiters
split(s) ==
    LET f[i \in 0..Len(s)] ==
            IF i = 0 THEN <<<<>>>>
            ELSE IF s[i] = BACKSLASH THEN Append(f[i - 1], <<>>)
            ELSE [f[i - 1] EXCEPT ![Len(f[i - 1])] = Append(@, s[i])]
    IN  f[Len(s)]

\* [&str]::join(sep)
join(parts, sep) ==
    LET g[i \in 1..Len(parts)] ==
            IF i = 1 THEN parts[1] ELSE g[i - 1] \o <<sep>> \o parts[i]
    IN  g[Len(parts)]

\* Path::join: an absolute `p` replaces `base`
path_join(base, p) ==
    IF p # <<>> /\ p[1] = MAIN_SEPARATOR THEN p
    ELSE IF base # <<>> /\ base[Len(base)] = MAIN_SEPARATOR THEN base \o p
    ELSE base \o <<MAIN_SEPARATOR>> \o p

\* resolve_file_id that joins the components with the delimiter they had
resolve_file_id_untranslated(base_path, file_id) ==
    path_join(base_path, join(split(file_id), BACKSLASH))

\* path_parts.join(MAIN_SEPARATOR), base_path.join(file_path)
resolve_file_id(base_path, file_id) ==
    path_join(base_path, join(split(file_id), MAIN_SEPARATOR))

DicomDirEntry(path, type_name, metadata, children) ==
    [path |-> path, type_name |-> type_name, metadata |-> metadata,
     children |-> children]

\* DicomValueType::Str, DicomValueType::Int
StrValue(v) == [kind |-> "Str", value |-> v]
IntValue(v) == [kind |-> "Int", value |-> v]

\* parse_dicomdir_records: the entries of the records of `seq`
RECURSIVE parse_dicomdir_records(_, _)
parse_dicomdir_records(seq, base_path) ==
    [k \in 1..Len(seq) |->
        LET record      == seq[k]
            record_type == unwrap_or(record.record_type, "UNKNOWN")
            path        == IF record_type = "IMAGE" /\ is_some(record.file_id)
                           THEN resolve_file_id(base_path, record.file_id[1])
                           ELSE <<>>
        IN  DicomDirEntry(path, record_type, record.metadata,
                          parse_dicomdir_records(record.lower, base_path))]

\* Path::parent of the catalog's path: without its last component
parent(path) ==
    LET seps == {k \in 1..Len(path) : path[k] = MAIN_SEPARATOR}
        last == CHOOSE k \in seps : \A m \in seps : m <= k
    IN  IF seps = {} THEN <<>> ELSE SubSeq(path, 1, last - 1)

\* is_dicomdir_file: exists, is a DICOM file, has the SOP class of a catalog
MediaStorageDirectoryStorage == "1.2.840.10008.1.3.10"

is_dicomdir_file(file) ==
    /\ file.exists
    /\ file.opens
    /\ file.sop_class = Some(MediaStorageDirectoryStorage)

\* parse_dicomdir_file after its checks: Err without the directory record
\* sequence, else the ROOT entry
parse_dicomdir_file(path, file) ==
    IF ~is_dicomdir_file(file)
    THEN Err("Not a valid DICOMDIR file")
    ELSE IF ~is_some(file.records)
    THEN Err("Failed to find directory record sequence")
    ELSE Ok(DicomDirEntry(path, "ROOT", <<>>,
                          parse_dicomdir_records(file.records[1], parent(path))))

\* create_metadata_from_dicomdir_entry: the keys it reads, each with the
\* DicomValueType it accepts
create_metadata_from_dicomdir_entry(entry) ==
    LET md == entry.metadata
        str(key) == IF key \in DOMAIN md /\ md[key].kind = "Str"
                    THEN Some(md[key].value) ELSE None
        int(key) == IF key \in DOMAIN md /\ md[key].kind = "Int"
                    THEN Some(md[key].value) ELSE None
    IN  [EmptyMetadata EXCEPT
            !.patient_name = str("PatientName"),
            !.patient_id = str("PatientID"),
            !.study_date = str("StudyDate"),
            !.study_description = str("StudyDescription"),
            !.series_description = str("SeriesDescription"),
            !.study_instance_uid = str("StudyInstanceUID"),
            !.series_instance_uid = str("SeriesInstanceUID"),
            !.sop_instance_uid = str("SOPInstanceUID"),
            !.instance_number = int("InstanceNumber"),
            !.series_number = int("SeriesNumber"),
            !.modality = str("Modality")]

\* Path::new(&entry.path).exists()
path_exists(files, path) == path \in DOMAIN files /\ files[path].exists

\* the entry process_dicomdir_entries pushes for an IMAGE node
catalog_entry(entry, files) ==
    DicomDirectoryEntry(entry.path,
        IF files[entry.path].opens
        THEN extract_metadata(files[entry.path].obj).value
        ELSE create_metadata_from_dicomdir_entry(entry),
        TRUE)

RECURSIVE process_dicomdir_entries(_, _)

\* process_dicomdir_entries that does not descend into the children
process_dicomdir_entries_top_only(entry, files) ==
    IF entry.type_name = "ROOT"
    THEN LET f[i \in 0..Len(entry.children)] ==
                 IF i = 0 THEN <<>>
                 ELSE LET c == entry.children[i]
                      IN  f[i - 1] \o
                          (IF c.type_name = "IMAGE" /\ c.path # <<>>
                                 /\ path_exists(files, c.path)
                           THEN <<catalog_entry(c, files)>> ELSE <<>>)
         IN  f[Len(entry.children)]
    ELSE <<>>

\* process_dicomdir_entries: what the call on `entry` appends to `result`
process_dicomdir_entries(entry, files) ==
    LET own == IF entry.type_name = "IMAGE" /\ entry.path # <<>>
                      /\ path_exists(files, entry.path)
               THEN <<catalog_entry(entry, files)>>
               ELSE <<>>
        f[i \in 0..Len(entry.children)] ==
            IF i = 0 THEN own
            ELSE f[i - 1] \o process_dicomdir_entries(entry.children[i], files)
    IN  f[Len(entry.children)]

(* Inputs and actions of the catalog loader *)

\* the directory given to load_dicom_directory_unified, and the two names
\* it probes
DirPath == <<"/", "m">>
DicomdirUpper == DirPath \o <<MAIN_SEPARATOR, "DICOMDIR">>
DicomdirLower == DirPath \o <<MAIN_SEPARATOR, "dicomdir">>

\* referenced file ids: two components, and one that begins with the
\* delimiter
FileIds == {<<"D", BACKSLASH, "I">>, <<BACKSLASH, "D">>}

\* what extract_dicomdir_record_metadata leaves in entry.metadata: the
\* series number of a catalog read as text is not an Int
RecordMetadata ==
    ("Modality" :> StrValue("CT")) @@ ("InstanceNumber" :> IntValue(1))
        @@ ("SeriesNumber" :> StrValue("1"))

\* type and referenced file id of a directory record
RecordKinds ==
    {[record_type |-> Some("IMAGE"), file_id |-> None],
     [record_type |-> Some("IMAGE"), file_id |-> Some(<<"D", BACKSLASH, "I">>)],
     [record_type |-> Some("IMAGE"), file_id |-> Some(<<BACKSLASH, "D">>)],
     [record_type |-> Some("SERIES"), file_id |-> None],
     [record_type |-> Some("SERIES"), file_id |-> Some(<<"D", BACKSLASH, "I">>)],
     [record_type |-> None, file_id |-> Some(<<"D", BACKSLASH, "I">>)]}

DirectoryRecord(kind, lower) ==
    [record_type |-> kind.record_type, file_id |-> kind.file_id,
     metadata |-> RecordMetadata, lower |-> lower]

\* the directory record sequences of at most `max` records, nested ones
\* counted (F[n]: those of exactly n records)
RecordSequences(max) ==
    LET F[n \in 0..max] ==
            IF n = 0 THEN {<<>>}
            ELSE UNION {{<<DirectoryRecord(kind, lower)>> \o rest :
                            kind \in RecordKinds, lower \in F[j - 1],
                            rest \in F[n - j]} : j \in 1..n}
    IN  UNION {F[n] : n \in 0..max}

\* a file of the directory as the probes find it
NoFile == [exists |-> FALSE, opens |-> FALSE, sop_class |-> None,
           records |-> None]
NotDicom == [NoFile EXCEPT !.exists = TRUE]
ImageFile == [NotDicom EXCEPT !.opens = TRUE,
                              !.sop_class = Some("1.2.840.10008.5.1.4.1.1.2")]
Catalog(records) ==
    [exists |-> TRUE, opens |-> TRUE,
     sop_class |-> Some(MediaStorageDirectoryStorage), records |-> records]

\* the files the file ids refer to: absent, unreadable, or a DICOM file
ReferencedFiles ==
    {(<<"/", "m", "/", "D", "/", "I">> :> a) @@ (<<"/", "D">> :> b) :
        a \in {[exists |-> FALSE, opens |-> FALSE, obj |-> NoObject],
               [exists |-> TRUE, opens |-> FALSE, obj |-> NoObject],
               [exists |-> TRUE, opens |-> TRUE,
                obj |-> [series_number |-> None, instance_number |-> Some(2)]]},
        b \in {[exists |-> FALSE, opens |-> FALSE, obj |-> NoObject],
               [exists |-> TRUE, opens |-> TRUE, obj |-> NoObject]}}

NoReferencedFiles ==
    (<<"/", "m", "/", "D", "/", "I">> :>
        [exists |-> FALSE, opens |-> FALSE, obj |-> NoObject])

OneImage == <<DirectoryRecord(
                [record_type |-> Some("IMAGE"),
                 file_id |-> Some(<<"D", BACKSLASH, "I">>)], <<>>)>>

\* what is on disk when load_dicom_directory_unified is called; a catalog
\* holds at most `max` records
UnifiedDisks(max) ==
    {[upper |-> Catalog(Some(rs)), lower |-> NoFile, files |-> fs] :
        rs \in RecordSequences(max), fs \in ReferencedFiles}
    \cup {[upper |-> u, lower |-> l, files |-> fs] :
            u \in {NoFile, ImageFile, Catalog(None), Catalog(Some(<<>>))},
            l \in {Catalog(None), Catalog(Some(OneImage))},
            fs \in ReferencedFiles}
    \cup {[upper |-> NoFile, lower |-> ImageFile,
            files |-> NoReferencedFiles],
           [upper |-> NotDicom, lower |-> NoFile,
            files |-> NoReferencedFiles]}

\* the catalog the two probes choose: DICOMDIR first
chosen_catalog_lower_first(d) ==
    IF is_dicomdir_file(d.lower) THEN "lower"
    ELSE IF is_dicomdir_file(d.upper) THEN "upper"
    ELSE "none"

chosen_catalog(d) ==
    IF is_dicomdir_file(d.upper) THEN "upper"
    ELSE IF is_dicomdir_file(d.lower) THEN "lower"
    ELSE "none"

\* load_dicom_directory_unified: the path checks, the two probes, and
\* either parse_dicomdir_file (first step of load_from_dicomdir) or the
\* call of the plain scanner
load_dicom_directory_unified ==
    /\ pc = "start" /\ mode = "unified"
    /\ IF rootState \in {"missing", "not_a_directory"}
       THEN /\ ret' = Some(Err("Invalid directory path"))
            /\ pc' = "done"
            /\ UNCHANGED <<mode, dicomdir>>
       ELSE IF chosen_catalog(disk) # "none"
       THEN LET path == IF chosen_catalog(disk) = "upper"
                        THEN DicomdirUpper ELSE DicomdirLower
                file == IF chosen_catalog(disk) = "upper"
                        THEN disk.upper ELSE disk.lower
                parsed == parse_dicomdir_file(path, file)
            IN  IF parsed.is_ok
                THEN /\ dicomdir' = Some(parsed.value)
                     /\ pc' = "catalog"
                     /\ UNCHANGED <<mode, ret>>
                ELSE /\ ret' = Some(parsed)
                     /\ pc' = "done"
                     /\ UNCHANGED <<mode, dicomdir>>
       ELSE /\ mode' = IF unified[1] THEN "recursive" ELSE "flat"
            /\ UNCHANGED <<pc, ret, dicomdir>>
    /\ UNCHANGED <<rootState, depth, listing, result, unified>>
    /\ UNCHANGED orgVars /\ UNCHANGED sortVars
    /\ UNCHANGED fileVars /\ UNCHANGED parVars

\* load_from_dicomdir after the parse: process_dicomdir_entries, the
\* is_empty test, sort_dicom_entries_by_position and Ok(result)
load_from_dicomdir ==
    /\ pc = "catalog" /\ mode = "unified"
    /\ LET collected == process_dicomdir_entries(dicomdir[1], disk.files)
       IN  IF collected = <<>>
           THEN /\ ret' = Some(Err("No valid DICOM images found in DICOMDIR"))
                /\ UNCHANGED result
           ELSE /\ result' = sort_dicom_entries_by_position(collected)
                /\ ret' = Some(Ok(result'))
    /\ pc' = "done"
    /\ UNCHANGED <<mode, rootState, depth, listing, unified, dicomdir>>
    /\ UNCHANGED orgVars /\ UNCHANGED sortVars
    /\ UNCHANGED fileVars /\ UNCHANGED parVars

InitUnified ==
    /\ mode = "unified"
    /\ unified \in {Some(FALSE), Some(TRUE)}
    /\ dicomdir = None
    /\ rootState \in RootStates
    /\ pc = "start"
    /\ depth = 0
    /\ listing = <<>>
    /\ result = <<>>
    /\ ret = None
    /\ disk \in (IF rootState \in {"missing", "not_a_directory"}
                 THEN {[upper |-> NoFile, lower |-> NoFile,
                        files |-> NoReferencedFiles]}
                 ELSE IF rootState = "unlistable"
                 THEN UnifiedDisks(1)
                 ELSE UnifiedDisks(MaxRecords))
    /\ entries = <<>> /\ patients = None
    /\ SortIdle /\ FileIdle /\ ParIdle

NextUnified ==
    \/ load_dicom_directory_unified
    \/ load_from_dicomdir
    \/ NextScan

SpecUnified == InitUnified /\ [][NextUnified]_vars

(* Claims about the catalog loader *)

\* the nodes of a catalog tree, parents before children
RECURSIVE NodesOf(_)
NodesOf(entry) ==
    LET f[i \in 0..Len(entry.children)] ==
            IF i = 0 THEN <<entry>>
            ELSE f[i - 1] \o NodesOf(entry.children[i])
    IN  f[Len(entry.children)]

\* the records of a directory record sequence, parents before children
RECURSIVE RecordsOf(_)
RecordsOf(seq) ==
    LET f[i \in 0..Len(seq)] ==
            IF i = 0 THEN <<>>
            ELSE f[i - 1] \o <<seq[i]>> \o RecordsOf(seq[i].lower)
    IN  f[Len(seq)]

CatalogParsed == unified # None /\ is_some(dicomdir)
CatalogLoaded == CatalogParsed /\ pc = "done"

\* the catalog file the parsed tree was read from
ParsedFile ==
    IF dicomdir[1].path = DicomdirUpper THEN disk.upper ELSE disk.lower

\* the file id with every delimiter replaced by the host separator
Translated(file_id) ==
    [k \in 1..Len(file_id) |->
        IF file_id[k] = BACKSLASH THEN MAIN_SEPARATOR ELSE file_id[k]]

ScannedFiles ==
    LET f[i \in 0..Len(listing)] ==
            IF i = 0 THEN <<>>
            ELSE IF listing[i].entry.kind = "file"
            THEN push_file(f[i - 1], i, listing[i].entry)
            ELSE f[i - 1]
    IN  f[Len(listing)]

Accepted(file) ==
    file.exists /\ file.opens
        /\ file.sop_class = Some(MediaStorageDirectoryStorage)

\* C19: a unified call reads a catalog only when DICOMDIR, or else
\* dicomdir, exists and is accepted by is_dicomdir_file, DICOMDIR being
\* preferred; otherwise it returns what the plain scanner returns for the
\* same `recursive`: Ok with the sorted files of the listing, Err only as
\* the scanner fails, whatever the files named DICOMDIR and dicomdir hold.
C19_UnifiedFallsBackToScanner ==
    (unified # None /\ Returned) =>
        IF Accepted(disk.upper) \/ Accepted(disk.lower)
        THEN /\ mode = "unified"
             /\ is_some(dicomdir) =>
                    dicomdir[1].path = IF Accepted(disk.upper)
                                       THEN DicomdirUpper ELSE DicomdirLower
        ELSE /\ dicomdir = None
             /\ rootState \in {"missing", "not_a_directory"} => ReturnedErr
             /\ rootState \notin {"missing", "not_a_directory"} =>
                    /\ mode = IF unified[1] THEN "recursive" ELSE "flat"
                    /\ ~unified[1] =>
                           \A k \in 1..Len(listing) : listing[k].depth = 0
                    /\ ReturnedOk => ret[1].value = sort_dicom_entries(ScannedFiles)
                    /\ ReturnedErr =>
                           \/ rootState # "listable"
                           \/ /\ unified[1]
                              /\ listing # <<>>
                              /\ listing[Len(listing)].entry.kind = "dir"
                              /\ ~listing[Len(listing)].entry.listable

\* a directory with a file named DICOMDIR that is no catalog, scanned by
\* the plain scanner with a file found
C19_Witness ==
    /\ unified # None /\ ReturnedOk
    /\ disk.upper.exists /\ ~Accepted(disk.upper) /\ ~Accepted(disk.lower)
    /\ ret[1].value # <<>>

\* the entries a catalog load collected
Collected == IF ReturnedOk THEN ret[1].value ELSE <<>>

\* C20: a catalog load yields one entry for each node of type IMAGE, at
\* any depth, whose path is non-empty and exists, and none for any other
\* node; the metadata of an entry are those of the referenced file when it
\* opens, those of the catalog record otherwise.
C20_CatalogEntriesAreExistingImages ==
    CatalogLoaded =>
        LET nodes == NodesOf(dicomdir[1])
            image == {k \in 1..Len(nodes) :
                        /\ nodes[k].type_name = "IMAGE"
                        /\ nodes[k].path # <<>>
                        /\ nodes[k].path \in DOMAIN disk.files
                        /\ disk.files[nodes[k].path].exists}
        IN  /\ Len(Collected) = Cardinality(image)
            /\ \A p \in {nodes[k].path : k \in 1..Len(nodes)}
                        \cup {Collected[i].path : i \in 1..Len(Collected)} :
                   CountPath(Collected, p)
                       = Cardinality({k \in image : nodes[k].path = p})
            /\ \A i \in 1..Len(Collected) :
                   LET file == disk.files[Collected[i].path]
                   IN  /\ Collected[i].is_valid
                       /\ file.opens =>
                              Collected[i].metadata =
                                  [EmptyMetadata EXCEPT
                                      !.series_number = file.obj.series_number,
                                      !.instance_number = file.obj.instance_number]
                       /\ ~file.opens =>
                              Collected[i].metadata =
                                  [EmptyMetadata EXCEPT
                                      !.modality = Some("CT"),
                                      !.instance_number = Some(1)]

\* an IMAGE node below another node is collected, with the metadata of the
\* catalog because its file does not open, and an IMAGE node whose file is
\* absent is not
C20_Witness ==
    /\ CatalogLoaded /\ ReturnedOk
    /\ \E k \in 1..Len(dicomdir[1].children) :
         \E j \in 1..Len(dicomdir[1].children[k].children) :
            LET n == dicomdir[1].children[k].children[j]
            IN  /\ n.type_name = "IMAGE" /\ n.path # <<>>
                /\ disk.files[n.path].exists /\ ~disk.files[n.path].opens
    /\ \E k \in 1..Len(NodesOf(dicomdir[1])) :
            LET n == NodesOf(dicomdir[1])[k]
            IN  /\ n.type_name = "IMAGE" /\ n.path # <<>>
                /\ ~disk.files[n.path].exists

----------------------------------------------------------------------------
(* Single-file operations: is_dicom_file, load_dicom_file and              *)
(* extract_metadata_elements                                               *)

\* tags::SPECIFIC_TAG as the 8-digit hex string format!("{:04X}{:04X}") gives
REFERENCED_IMAGE_SEQUENCE == "00081140"
PATIENT_NAME    == "00100010"
SERIES_NUMBER   == "00200011"
INSTANCE_NUMBER == "00200013"
PIXEL_DATA      == "7FE00010"

\* obj.iter() yields the elements in ascending tag order
TagOrder ==
    <<REFERENCED_IMAGE_SEQUENCE, PATIENT_NAME, SERIES_NUMBER, INSTANCE_NUMBER,
      PIXEL_DATA>>

\* Value<InMemDicomObject>: kind is the PrimitiveValue variant, or
\* "Sequence" / "PixelSequence" for the other two variants of Value; text
\* holds the characters of a Str and nums the numbers of a numeric variant
DicomValue(kind, text, nums) == [kind |-> kind, text |-> text, nums |-> nums]

\* InMemElement: header (tag, vr, is_non_primitive()) and value; to_str:
\* what e.value().to_str() returns, Some(text) for Ok and None for Err
InMemElement(tag, vr, non_primitive, value, to_str) ==
    [tag |-> tag, vr |-> vr, non_primitive |-> non_primitive,
     value |-> value, to_str |-> to_str]

\* v[0] as i32: the numbers of the model lie within i16 and u16, whose
\* conversion to i32 keeps the value
as_i32(x) == x

element_to_int(elem) ==
    IF elem.value.kind \in {"I32", "I16", "U16", "U8"}
    THEN IF Len(elem.value.nums) > 0 THEN Some(as_i32(elem.value.nums[1]))
         ELSE None
    ELSE None

\* obj.element(tag): Ok(element) or Err; as .ok() leaves it
element_ok(obj, tag) ==
    LET found == {k \in 1..Len(obj) : obj[k].tag = tag}
    IN  IF found = {} THEN None ELSE Some(obj[CHOOSE k \in found : TRUE])

\* Option::and_then(element_to_int)
element_int(obj, tag) ==
    LET e == element_ok(obj, tag)
    IN  IF is_some(e) THEN element_to_int(e[1]) ELSE None

\* the two integer fields extract_metadata reads from the object
integer_fields(obj) ==
    [series_number |-> element_int(obj, SERIES_NUMBER),
     instance_number |-> element_int(obj, INSTANCE_NUMBER)]

\* convert_value_to_dicom_type
convert_value_to_dicom_type(value) ==
    IF value.kind = "Str" THEN DicomValue("Str", value.text, <<>>)
    ELSE IF value.kind \in {"I32", "I16", "U16", "I64", "U32", "U8"}
    THEN IF value.nums # <<>>
         THEN DicomValue("Int", <<>>, <<as_i32(value.nums[1])>>)
         ELSE DicomValue("Unknown", <<>>, <<>>)
    ELSE IF value.kind \in {"F32", "F64"}
    THEN IF value.nums # <<>>
         THEN DicomValue("Float", <<>>, <<value.nums[1]>>)
         ELSE DicomValue("Unknown", <<>>, <<>>)
    ELSE DicomValue("Unknown", <<>>, <<>>)

DicomTag(elem) ==
    [tag |-> elem.tag, vr |-> elem.vr,
     value |-> convert_value_to_dicom_type(elem.value)]

\* extract_all_tags that fails on a value it cannot convert
extract_all_tags_strict(obj) ==
    IF \E k \in 1..Len(obj) : DicomTag(obj[k]).value.kind = "Unknown"
    THEN Err("Unknown value")
    ELSE Ok([k \in 1..Len(obj) |-> DicomTag(obj[k])])

\* extract_all_tags: one DicomTag per element, always Ok
extract_all_tags(obj) ==
    Ok([k \in 1..Len(obj) |-> DicomTag(obj[k])])

\* FileDicomObject::open_file(path): Ok(obj) for a DICOM file, Err for a
\* missing, unreadable or non-DICOM one
open_file(file) ==
    IF file.opens THEN Ok(file.obj) ELSE Err("Failed to open DICOM file")

DicomFile(metadata, all_tags) ==
    [metadata |-> metadata, all_tags |-> all_tags]

load_dicom_file(file) ==
    LET opened == open_file(file)
    IN  IF ~opened.is_ok THEN opened
        ELSE LET metadata == extract_metadata(integer_fields(opened.value))
                 all_tags == extract_all_tags(opened.value)
             IN  IF ~metadata.is_ok THEN metadata
                 ELSE IF ~all_tags.is_ok THEN all_tags
                 ELSE Ok(DicomFile(metadata.value, all_tags.value))

\* StandardDataDictionary.by_tag(tag).map(|entry| entry.alias)
alias(tag) ==
    IF tag = REFERENCED_IMAGE_SEQUENCE THEN "ReferencedImageSequence"
    ELSE IF tag = PATIENT_NAME THEN "PatientName"
    ELSE IF tag = SERIES_NUMBER THEN "SeriesNumber"
    ELSE IF tag = INSTANCE_NUMBER THEN "InstanceNumber"
    ELSE IF tag = PIXEL_DATA THEN "PixelData"
    ELSE "unknown attribute"

El(tag, vr, value) == [tag |-> tag, alias |-> alias(tag), vr |-> vr, value |-> value]

PIXEL_DATA_PLACEHOLDER == <<"pixel data">>

\* to_el: the error of e.value().to_str()? is the tag of the element here
to_el(e) ==
    IF e.tag = PIXEL_DATA
    THEN Ok(El(e.tag, e.vr, PIXEL_DATA_PLACEHOLDER))
    ELSE IF is_some(e.to_str) THEN Ok(El(e.tag, e.vr, e.to_str[1]))
    ELSE Err(e.tag)

\* hashmap.insert(el.tag.clone(), el)
hashmap_insert(map, key, value) ==
    [k \in DOMAIN map \cup {key} |-> IF k = key THEN value ELSE map[k]]

\* extract_metadata_elements that skips an element to_el fails on
extract_metadata_elements_lenient(obj) ==
    LET f[i \in 0..Len(obj)] ==
            IF i = 0 THEN <<>>
            ELSE IF obj[i].non_primitive \/ ~to_el(obj[i]).is_ok
            THEN f[i - 1]
            ELSE hashmap_insert(f[i - 1], obj[i].tag, to_el(obj[i]).value)
    IN  Ok(f[Len(obj)])

\* extract_metadata_elements: the filter, the loop and its early return
extract_metadata_elements(obj) ==
    LET f[i \in 0..Len(obj)] ==
            IF i = 0 THEN Ok(<<>>)
            ELSE IF ~f[i - 1].is_ok THEN f[i - 1]
            ELSE IF obj[i].non_primitive THEN f[i - 1]
            ELSE LET el == to_el(obj[i])
                 IN  IF el.is_ok
                     THEN Ok(hashmap_insert(f[i - 1].value, obj[i].tag, el.value))
                     ELSE el
    IN  f[Len(obj)]

(* Inputs and actions of the single-file operations *)

\* what a file can hold under each tag
ElementsOf(tag) ==
    IF tag = INSTANCE_NUMBER
    THEN {InMemElement(tag, "IS", FALSE, DicomValue("Str", <<"5">>, <<>>),
                       Some(<<"5">>)),
          InMemElement(tag, "IS", FALSE, DicomValue("Str", <<"x">>, <<>>),
                       Some(<<"x">>)),
          InMemElement(tag, "SL", FALSE, DicomValue("I32", <<>>, <<7>>),
                       Some(<<"7">>)),
          InMemElement(tag, "SL", FALSE, DicomValue("I32", <<>>, <<>>),
                       Some(<<>>)),
          InMemElement(tag, "US", FALSE, DicomValue("U16", <<>>, <<3>>),
                       Some(<<"3">>)),
          InMemElement(tag, "SV", FALSE, DicomValue("I64", <<>>, <<9>>),
                       Some(<<"9">>))}
    ELSE IF tag = SERIES_NUMBER
    THEN {InMemElement(tag, "IS", FALSE, DicomValue("Str", <<"1", "2">>, <<>>),
                       Some(<<"1", "2">>)),
          InMemElement(tag, "SS", FALSE, DicomValue("I16", <<>>, <<2>>),
                       Some(<<"2">>))}
    ELSE IF tag = PIXEL_DATA
    THEN {InMemElement(tag, "OB", FALSE, DicomValue("U8", <<>>, <<0, 255>>),
                       None),
          InMemElement(tag, "OB", TRUE, DicomValue("PixelSequence", <<>>, <<>>),
                       None)}
    ELSE IF tag = PATIENT_NAME
    THEN {InMemElement(tag, "PN", FALSE, DicomValue("Str", <<"A">>, <<>>),
                       Some(<<"A">>)),
          InMemElement(tag, "PN", FALSE, DicomValue("Empty", <<>>, <<>>),
                       Some(<<>>)),
          InMemElement(tag, "UN", FALSE, DicomValue("Sequence", <<>>, <<>>),
                       None)}
    ELSE {InMemElement(tag, "SQ", TRUE, DicomValue("Sequence", <<>>, <<>>),
                       None)}

\* the objects of at most `max` elements, in tag order
FileObjects(max) ==
    LET G[i \in 0..Len(TagOrder)] ==
            IF i = 0 THEN {<<>>}
            ELSE G[i - 1] \cup
                 {Append(o, e) : o \in {p \in G[i - 1] : Len(p) < max},
                                 e \in ElementsOf(TagOrder[i])}
    IN  G[Len(TagOrder)]

\* the file a path names
FilesOnDisk(max) ==
    {[kind |-> k, opens |-> FALSE, obj |-> <<>>] :
        k \in {"missing", "unreadable", "not_dicom"}}
    \cup {[kind |-> "dicom", opens |-> TRUE, obj |-> o] : o \in FileObjects(max)}

is_dicom_file_call ==
    /\ mode = "file" /\ valid = None
    /\ valid' = Some(is_dicom_file(disk))
    /\ UNCHANGED scanVars /\ UNCHANGED orgVars /\ UNCHANGED sortVars
    /\ UNCHANGED catVars /\ UNCHANGED elements /\ UNCHANGED parVars

load_dicom_file_call ==
    /\ mode = "file" /\ ret = None
    /\ ret' = Some(load_dicom_file(disk))
    /\ pc' = "done"
    /\ UNCHANGED <<mode, rootState, depth, listing, result>>
    /\ UNCHANGED orgVars /\ UNCHANGED sortVars /\ UNCHANGED catVars
    /\ UNCHANGED fileVars /\ UNCHANGED parVars

\* extract_metadata_elements(&obj) on the object of a file that opened
extract_metadata_elements_call ==
    /\ mode = "file" /\ elements = None
    /\ open_file(disk).is_ok
    /\ elements' = Some(extract_metadata_elements(open_file(disk).value))
    /\ UNCHANGED scanVars /\ UNCHANGED orgVars /\ UNCHANGED sortVars
    /\ UNCHANGED catVars /\ UNCHANGED valid /\ UNCHANGED parVars

InitFile ==
    /\ mode = "file" /\ rootState = "listable" /\ pc = "start"
    /\ depth = 0 /\ listing = <<>> /\ result = <<>> /\ ret = None
    /\ entries = <<>> /\ patients = None
    /\ disk \in FilesOnDisk(MaxElements)
    /\ SortIdle /\ CatIdle /\ FileIdle /\ ParIdle

NextFile ==
    \/ is_dicom_file_call
    \/ load_dicom_file_call
    \/ extract_metadata_elements_call

SpecFile == InitFile /\ [][NextFile]_vars

(* Claims about the single-file operations *)

DigitValue(ch) ==
    CASE ch = "0" -> 0 [] ch = "1" -> 1 [] ch = "2" -> 2 [] ch = "3" -> 3
      [] ch = "4" -> 4 [] ch = "5" -> 5 [] ch = "6" -> 6 [] ch = "7" -> 7
      [] ch = "8" -> 8 [] ch = "9" -> 9 [] OTHER -> 0 - 1

TextToInt(text) ==
    LET f[i \in 0..Len(text)] ==
            IF i = 0 THEN 0 ELSE 10 * f[i - 1] + DigitValue(text[i])
    IN  IF text # <<>> /\ \A i \in 1..Len(text) : DigitValue(text[i]) >= 0
        THEN Some(f[Len(text)]) ELSE None

\* what the claim says the integer field of `tag` holds for the object
StatedIntField(obj, tag) ==
    LET e == element_ok(obj, tag)
    IN  IF e = None THEN None
        ELSE IF e[1].value.kind = "Str" THEN TextToInt(e[1].value.text)
        ELSE element_to_int(e[1])

\* C22: extract_metadata never fails; instance_number and series_number
\* hold the integer of the tag's text value when the tag is present and
\* the text is a valid integer, and are absent, without an error, when
\* the tag is missing or its value is no integer.
C22_IntegerFieldsParsed ==
    (mode = "file" /\ ret # None /\ disk.kind = "dicom") =>
        /\ ret[1].is_ok
        /\ ret[1].value.metadata.instance_number
               = StatedIntField(disk.obj, INSTANCE_NUMBER)
        /\ ret[1].value.metadata.series_number
               = StatedIntField(disk.obj, SERIES_NUMBER)

\* the primitive elements of the object, in iteration order
PrimitiveElements ==
    LET f[i \in 0..Len(disk.obj)] ==
            IF i = 0 THEN <<>>
            ELSE IF disk.obj[i].non_primitive THEN f[i - 1]
            ELSE Append(f[i - 1], disk.obj[i])
    IN  f[Len(disk.obj)]

Unrenderable(e) == e.tag # PIXEL_DATA /\ e.to_str = None

----------------------------------------------------------------------------
(* Data-parallel fan-out of the directory scanner and of the per-slice     *)
(* extraction: a pool of workers fills a results array that has one slot   *)
(* per file of the listing, and a shared counter counts completed files    *)

\* a worker of the pool: idle, holding the file at `idx` (open, decode and
\* encode are done on it), or having stored its result
Worker(at, idx) == [at |-> at, idx |-> idx]

\* the positions no worker has taken yet
unclaimed ==
    {i \in 1..Len(slots) :
        /\ slots[i] = None
        /\ \A w \in 1..Len(workers) :
               workers[w].at = "idle" \/ workers[w].idx # i}

\* the slot a result goes to, were it the first free one (completion order)
slot_of_completion(idx) ==
    CHOOSE i \in 1..Len(slots) :
        slots[i] = None /\ \A j \in 1..(i - 1) : slots[j] # None

\* the slot a result goes to: the original position of its file
slot_of(idx) == idx

\* a worker takes a file of the listing
fan_out_take ==
    /\ mode = "parallel" /\ pc = "scan"
    /\ \E w \in 1..Len(workers), i \in unclaimed :
        /\ workers[w].at = "idle"
        /\ workers' = [workers EXCEPT ![w] = Worker("hold", i)]
    /\ UNCHANGED scanVars /\ UNCHANGED orgVars /\ UNCHANGED sortVars
    /\ UNCHANGED catVars /\ UNCHANGED fileVars /\ UNCHANGED <<slots, counter>>

\* a worker completes its file and writes the result into the array
fan_out_store ==
    /\ mode = "parallel" /\ pc = "scan"
    /\ \E w \in 1..Len(workers) :
        /\ workers[w].at = "hold"
        /\ slots' = [slots EXCEPT ![slot_of(workers[w].idx)] =
                        Some(scanned_entry(workers[w].idx,
                                           listing[workers[w].idx].entry))]
        /\ workers' = [workers EXCEPT ![w].at = "stored"]
    /\ UNCHANGED scanVars /\ UNCHANGED orgVars /\ UNCHANGED sortVars
    /\ UNCHANGED catVars /\ UNCHANGED fileVars /\ UNCHANGED counter

\* a worker increments the progress counter (one atomic fetch_add) and is
\* free for the next file
fan_out_count ==
    /\ mode = "parallel" /\ pc = "scan"
    /\ \E w \in 1..Len(workers) :
        /\ workers[w].at = "stored"
        /\ counter' = counter + 1
        /\ workers' = [workers EXCEPT ![w] = Worker("idle", 0)]
    /\ UNCHANGED scanVars /\ UNCHANGED orgVars /\ UNCHANGED sortVars
    /\ UNCHANGED catVars /\ UNCHANGED fileVars /\ UNCHANGED slots

\* all workers have finished: the results are read from the array in order
fan_out_collect ==
    /\ mode = "parallel" /\ pc = "scan"
    /\ unclaimed = {}
    /\ \A w \in 1..Len(workers) : workers[w].at = "idle"
    /\ result' = [i \in 1..Len(slots) |-> slots[i][1]]
    /\ ret' = Some(Ok(result'))
    /\ pc' = "done"
    /\ UNCHANGED <<mode, rootState, depth, listing>>
    /\ UNCHANGED orgVars /\ UNCHANGED sortVars /\ UNCHANGED catVars
    /\ UNCHANGED fileVars /\ UNCHANGED parVars

\* the files of a listing that the fan-out is given
ParallelFiles ==
    {e \in DirEntries :
        /\ e.kind = "file" /\ e.opens
        /\ e.obj.series_number = None
        /\ e.obj.instance_number \in {None, Some(1)}}

InitParallel ==
    /\ mode = "parallel" /\ rootState = "listable" /\ pc = "scan"
    /\ depth = 0 /\ ret = None /\ result = <<>>
    /\ listing \in {[k \in 1..Len(q) |-> Seen(q[k], 0)] :
                       q \in SeqsUpTo(ParallelFiles, MaxFiles)}
    /\ slots = [i \in 1..Len(listing) |-> None]
    /\ counter = 0
    /\ workers \in {[w \in 1..n |-> Worker("idle", 0)] : n \in 1..MaxWorkers}
    /\ OrgIdle /\ SortIdle /\ CatIdle /\ FileIdle

NextParallel ==
    \/ fan_out_take
    \/ fan_out_store
    \/ fan_out_count
    \/ fan_out_collect

SpecParallel == InitParallel /\ [][NextParallel]_vars

(* Claims about the fan-out *)

Stored == {i \in 1..Len(slots) : slots[i] # None}
NotCounted == {w \in 1..Len(workers) : workers[w].at = "stored"}

\* C24: under every interleaving of the workers each result lies in the
\* slot of its file's position in the listing, whatever the order of
\* completion, and the counter is incremented once per completed file;
\* when all workers have finished the counter equals the number of files
\* and the results are in the order of the listing.
C24_FanOutKeepsListingOrder ==
    mode = "parallel" =>
        /\ \A i \in Stored :
               slots[i][1] = scanned_entry(i, listing[i].entry)
        /\ counter = Cardinality(Stored) - Cardinality(NotCounted)
        /\ pc = "done" =>
               /\ counter = Len(listing)
               /\ ReturnedOk
               /\ ret[1].value = [i \in 1..Len(listing) |->
                                     scanned_entry(i, listing[i].entry)]

\* the second file was completed and counted while the slot of the first
\* file, which holds something else, is still empty
C24_Witness ==
    /\ mode = "parallel" /\ Len(slots) >= 2
    /\ slots[1] = None /\ slots[2] # None
    /\ counter = 1
    /\ listing[1].entry # listing[2].entry

----------------------------------------------------------------------------
(* The whole model: one of the entry points above is called *)

Init ==
    \/ InitScan \/ InitOrganize \/ InitSort \/ InitVolume \/ InitStudy
    \/ InitUnified \/ InitFile \/ InitParallel

Next ==
    \/ NextScan \/ NextOrganize \/ NextSort \/ NextVolume \/ NextStudy
    \/ load_dicom_directory_unified \/ load_from_dicomdir
    \/ NextFile \/ NextParallel

Spec == Init /\ [][Next]_vars

====
